---- MODULE Spec2Model ----
(***************************************************************************)
(* neotiles: the tile compositor (TileManager._set_pixels_from_tiles), the *)
(* registration list (register_tile / deregister_tile) and the animation   *)
(* thread lifecycle (draw_hardware_matrix / _animate / draw_stop), with    *)
(* the parts of Tile the compositor reads and writes.                      *)
(*                                                                         *)
(* Matrices are functions over Python's 0-based indices:                   *)
(*   m[row][col], row \in 0..rows-1, col \in 0..cols-1.                    *)
(* Colours are opaque values; Zero stands for PixelColor(0, 0, 0, 0).      *)
(***************************************************************************)
EXTENDS Integers, Sequences, FiniteSets, TLC

\* ------------------------------------------------------------------ bounds
MatrixCols == 2
MatrixRows == 2
NumTiles == 2
MaxTileDim == 2
MaxManaged == 2
MaxThreads == 2
MinRoot == 1
NumPainted == 1
MaxSingle == 1
MaxStacked == 3
NumPayloads == 2
DefaultBrightness == 64
MaxBrightness == 255
ChannelMax == 255
Denom == 4
MaxColors == 2
MaxBrightnessSets == 2
FrameDelay == 2
MaxTime == 6

\* ------------------------------------------------------------- input sets
Tiles == 1..NumTiles
Painted == 1..NumPainted
UnitSize == [cols |-> 1, rows |-> 1]
Zero == 0
Mark == NumTiles + 1
Colors == {Zero} \cup Tiles \cup {Mark}
NoThread == 0
None == 0
ThreadIds == 1..MaxThreads
Dims == 1..MaxTileDim
TileSizes == [cols : Dims, rows : Dims]
RootXs == (0 - MinRoot)..(MatrixCols - 1)
RootYs == 0..(MatrixRows - 1)
Roots == [x : RootXs, y : RootYs]
PixelXs == (0 - 1)..MaxTileDim
PixelYs == (0 - 1)..MaxTileDim
Payloads == 1..NumPayloads
PyValues == {"True", "False", "1", "0", "foo", "None"}

\* Numbers given to PixelColor are multiples of 1 / Denom, held as their
\* numerators: -1, 0, 1/2, 1, 1 + 1/Denom, 127 + 1/Denom, 255, 255 + 1/Denom.
One == Denom
RawValues == {0 - Denom, 0, Denom \div 2, Denom, Denom + 1,
              127 * Denom + 1, ChannelMax * Denom, ChannelMax * Denom + 1}
EqValues == {0, Denom, Denom + 1}
\* white=None is <<>>, white=v is <<v>>.
Whites(vals) == {<<>>} \cup {<<v>> : v \in vals}
NormalizedArgs == {"None", "True", "False"}

\* Every integer channel value, and every normalized value the grid has.
ByteValues == {v * Denom : v \in 0..ChannelMax}
UnitValues == 0..One

\* Values a caller assigns to brightness: numbers, a string and a list.
BrightnessValues ==
    {[kind |-> "num", n |-> v] :
        v \in {0 - 1, 0, 100, MaxBrightness, MaxBrightness + 1}}
    \cup {[kind |-> "str", n |-> 0], [kind |-> "list", n |-> 0]}

VARIABLES
    managed_tiles,     \* TileManager._managed_tiles: Seq of [root, tile_object]
    pixels,            \* TileManager._pixels: the frame buffer
    animation_thread,  \* TileManager._animation_thread: NoThread or a thread id
    draw_fps,          \* TileManager._draw_fps: "None" or "fps"
    threads,           \* StoppableThread objects: id -> [pc, stop_requested]
    size,              \* Tile._size, per tile
    tpixels,           \* Tile._pixels, per tile
    animate,           \* Tile._animate, per tile
    visible,           \* Tile.visible, per tile
    caller,            \* where the caller thread is: "idle" or blocked in join
    last,              \* the most recent step: operation, whether it made a
                       \* compositing pass, whether that raised, return value
    draws,             \* Tile.draw() invocations made by the most recent operation
    flushes,           \* _draw_hardware_matrix() calls made by the most recent step
    data,              \* Tile._data, per tile
    is_accepting_data, \* Tile._is_accepting_data, per tile
    default_color,     \* Tile._default_color, per tile
    hook_seen,         \* what Tile.on_size_set() found at its last call, per tile
    size_sets,         \* on_size_set() calls made by the most recent step, per tile
    colors,            \* the PixelColor objects constructed so far
    color_out,         \* what the most recent PixelColor accessor returned
    led_brightness,    \* TileManager._led_brightness
    hw_brightness,     \* the brightness last given to the display driver
    seen,              \* what the caller's last read of TileManager.pixels gave
    cur_pass,          \* the compositing pass an animation thread is inside
    hw_calls,          \* calls of the display driver made by the most recent step
    now,               \* the clock, in ticks
    next_frame_time,   \* _animate's next_frame_time
    lock_owner,        \* who holds each wrapt.synchronized lock
    lock_depth,        \* how many times its owner has taken each lock
    lock_prog          \* lock operations each thread has still to make

mgrVars == <<managed_tiles, pixels, animation_thread, draw_fps, threads>>
dataVars == <<data, is_accepting_data, default_color>>
colorVars == <<colors, color_out>>
brightVars == <<led_brightness, hw_brightness>>
readVars == <<seen, cur_pass>>
timeVars == <<now, next_frame_time>>
lockVars == <<lock_owner, lock_depth, lock_prog>>
auxVars == <<colorVars, brightVars, readVars, timeVars, lockVars>>
tileVars == <<size, tpixels, animate, visible, dataVars>>
vars == <<managed_tiles, pixels, animation_thread, draw_fps, threads,
          size, tpixels, animate, visible, caller, last, draws, flushes,
          data, is_accepting_data, default_color, hook_seen, size_sets,
          colors, color_out, led_brightness, hw_brightness, seen, cur_pass,
          hw_calls, now, next_frame_time, lock_owner, lock_depth, lock_prog>>

\* ---------------------------------------------------------- pure helpers
\* Python's len() of a list modelled as a function over 0..n-1.
PyLen(m) == Cardinality(DOMAIN m)

\* Python list indexing: -n <= i < n is accepted, a negative i counts from
\* the end; anything else raises IndexError.
ValidIndex(i, n) == (0 - n) <= i /\ i < n
PyIndex(i, n) == IF i < 0 THEN i + n ELSE i

Matrix(ncols, nrows, color) ==
    [r \in 0..(nrows - 1) |-> [c \in 0..(ncols - 1) |-> color]]

\* The default_color getter of Tile.
DefaultColor(t) == default_color[t]

ClearPixels == Matrix(MatrixCols, MatrixRows, Zero)

\* InitPixels with the two ranges exchanged.
InitPixelsTransposed(sz, color) == Matrix(sz.rows, sz.cols, color)

\* Tile._init_pixels: size.rows rows of size.cols cells of the color.
InitPixels(sz, color) == Matrix(sz.cols, sz.rows, color)

NoDraws == [t \in Tiles |-> 0]

\* --------------------------------------------------------- Tile (tile.py)
\* TileDraw painting the color the tile was constructed with.
TileDrawStale(sz, t) == InitPixels(sz[t], t)

\* Tile.draw of the base class: _init_pixels() with the default color.
TileDraw(sz, t) == InitPixels(sz[t], DefaultColor(t))

\* Skipped without the test of the flag.
NeverSkipped(t) == FALSE

\* Tile.visible is read by the compositor: an invisible tile is skipped.
Skipped(t) == ~visible[t]

\* TileSetPixel over a buffer whose rows are one and the same list.
TileSetPixelAliased(tm, pos, color) ==
    IF ValidIndex(pos.y, PyLen(tm))
       /\ ValidIndex(pos.x, PyLen(tm[PyIndex(pos.y, PyLen(tm))]))
    THEN [r \in DOMAIN tm |->
             [tm[r] EXCEPT ![PyIndex(pos.x, PyLen(tm[r]))] = color]]
    ELSE tm

\* Tile.set_pixel: self._pixels[pos.y][pos.x] = color, IndexError ignored.
TileSetPixel(tm, pos, color) ==
    IF ValidIndex(pos.y, PyLen(tm))
       /\ ValidIndex(pos.x, PyLen(tm[PyIndex(pos.y, PyLen(tm))]))
    THEN [tm EXCEPT ![PyIndex(pos.y, PyLen(tm))]
                     [PyIndex(pos.x, PyLen(tm[PyIndex(pos.y, PyLen(tm))]))] = color]
    ELSE tm

\* ------------------------------------ the compositor (tilemanager.py)
\* A pass in progress: the frame buffer, the tiles' own buffers (draw()
\* rewrites them), the draw() calls made so far, and whether it has raised.

\* One assignment self._pixels[matrix_row][matrix_col] = pixel_color inside
\* try/except IndexError.
StampPixel(st, matrix_row, matrix_col, pixel_color) ==
    IF ValidIndex(matrix_row, PyLen(st.pix))
       /\ ValidIndex(matrix_col, PyLen(st.pix[PyIndex(matrix_row, PyLen(st.pix))]))
    THEN [st EXCEPT !.pix[PyIndex(matrix_row, PyLen(st.pix))]
                         [PyIndex(matrix_col,
                                  PyLen(st.pix[PyIndex(matrix_row, PyLen(st.pix))]))]
                         = pixel_color]
    ELSE [st EXCEPT !.err = TRUE]

\* for tile_col_num in range(len(tile_matrix[tile_row_num])), from tc on.
RECURSIVE StampRow(_, _, _, _, _)
StampRow(st, tile_matrix, root, tr, tc) ==
    IF st.err \/ tc >= PyLen(tile_matrix[tr]) THEN st
    ELSE StampRow(StampPixel(st, root.y + tr, root.x + tc, tile_matrix[tr][tc]),
                  tile_matrix, root, tr, tc + 1)

\* for tile_row_num in range(len(tile_matrix)), from tr on.
RECURSIVE StampTile(_, _, _, _)
StampTile(st, tile_matrix, root, tr) ==
    IF st.err \/ tr >= PyLen(tile_matrix) THEN st
    ELSE StampTile(StampRow(st, tile_matrix, root, tr, 0),
                   tile_matrix, root, tr + 1)

\* CompositeTile stamping the tile before it calls draw().
CompositeTileStampFirst(st, managed_tile, sz, anim) ==
    LET tile_object == managed_tile.tile_object IN
    IF Skipped(tile_object) THEN st
    ELSE LET stamped == StampTile(st, st.tpix[tile_object], managed_tile.root, 0)
         IN IF anim[tile_object] /\ ~stamped.err
            THEN [stamped EXCEPT !.tpix[tile_object] = TileDraw(sz, tile_object),
                                 !.draws[tile_object] = @ + 1]
            ELSE stamped

\* CompositeTile calling draw() whatever the animate flag says.
CompositeTileDrawsAll(st, managed_tile, sz, anim) ==
    LET tile_object == managed_tile.tile_object IN
    IF Skipped(tile_object) THEN st
    ELSE LET drawn == [st EXCEPT !.tpix[tile_object] = TileDraw(sz, tile_object),
                                 !.draws[tile_object] = @ + 1]
         IN StampTile(drawn, drawn.tpix[tile_object], managed_tile.root, 0)

\* The body of "for managed_tile in self._managed_tiles" for one record.
CompositeTile(st, managed_tile, sz, anim) ==
    LET tile_object == managed_tile.tile_object IN
    IF Skipped(tile_object) THEN st
    ELSE LET drawn == IF anim[tile_object]
                      THEN [st EXCEPT !.tpix[tile_object] = TileDraw(sz, tile_object),
                                      !.draws[tile_object] = @ + 1]
                      ELSE st
         IN StampTile(drawn, drawn.tpix[tile_object], managed_tile.root, 0)

RECURSIVE CompositeFrom(_, _, _, _, _)
CompositeFrom(st, mt, sz, anim, i) ==
    IF st.err \/ i > Len(mt) THEN st
    ELSE CompositeFrom(CompositeTile(st, mt[i], sz, anim), mt, sz, anim, i + 1)

\* SetPixelsFromTiles without the call of _clear_pixels().
SetPixelsFromTilesNoClear(mt, sz, anim, tpix) ==
    CompositeFrom([pix |-> pixels, tpix |-> tpix, draws |-> NoDraws,
                   err |-> FALSE],
                  mt, sz, anim, 1)

\* TileManager._set_pixels_from_tiles over the registration list mt, with
\* the tiles' sizes sz, animate flags anim and pixel buffers tpix.
SetPixelsFromTiles(mt, sz, anim, tpix) ==
    CompositeFrom([pix |-> ClearPixels, tpix |-> tpix, draws |-> NoDraws,
                   err |-> FALSE],
                  mt, sz, anim, 1)

\* TileManager.deregister_tile's loop: "for i, managed_tile in
\* enumerate(self._managed_tiles)" deleting from the list it iterates; the
\* list iterator moves on to position i + 1 after every element.
RECURSIVE DeregisterLoop(_, _, _, _)
DeregisterLoop(mt, tile, i, removed) ==
    IF i > Len(mt) THEN [mt |-> mt, removed |-> removed]
    ELSE IF mt[i].tile_object = tile
         THEN DeregisterLoop(SubSeq(mt, 1, i - 1) \o SubSeq(mt, i + 1, Len(mt)),
                             tile, i + 1, removed + 1)
         ELSE DeregisterLoop(mt, tile, i + 1, removed)

\* ----------------------------------------------------------------- state
Alive(id) == threads[id].pc \in {"first_frame", "loop", "sleep"}

Result(op, pass, err, ret) == [op |-> op, pass |-> pass, err |-> err, ret |-> ret]

Idle == [pc |-> "idle", op |-> "none", ret |-> 0]

\* No step but a size assignment calls on_size_set().
NoSizeSet == size_sets' = NoDraws /\ UNCHANGED hook_seen

NoOutput == [op |-> "none"]

NoPass == [id |-> NoThread, i |-> 0, next |-> "none"]

\* The calls the display driver receives.
NoCalls == <<>>

SetPixelColor(pixel_num, color) ==
    [call |-> "setPixelColor", n |-> pixel_num, color |-> color]

Show == [call |-> "show", n |-> 0, color |-> 0]

\* TileManager._draw_hardware_matrix: every cell of the buffer pix, row by
\* row, to the pixel of its number, then show().
DrawHardwareMatrix(pix) ==
    LET rows == PyLen(pix)
        cols == PyLen(pix[0])
    IN [k \in 1..(rows * cols) |->
           SetPixelColor(k - 1, pix[(k - 1) \div cols][(k - 1) % cols])]
       \o <<Show>>

\* The threads and the locks of wrapt.synchronized: the manager's, every
\* tile's, and the one of a setter function.
Caller == 0
Procs == {Caller} \cup ThreadIds
NoOwner == MaxThreads + 1
ManagerLock == 0
SetterLock == NumTiles + 1
Locks == {ManagerLock} \cup Tiles \cup {SetterLock}

Init ==
    /\ managed_tiles = <<>>
    /\ pixels = ClearPixels
    /\ animation_thread = NoThread
    /\ draw_fps \in {"None", "fps"}
    /\ threads = [id \in ThreadIds |-> [pc |-> "new", stop_requested |-> FALSE]]
    /\ default_color = [t \in Tiles |-> t]
    /\ data = [t \in Tiles |-> None]
    /\ is_accepting_data = [t \in Tiles |-> TRUE]
    /\ size = [t \in Tiles |-> [cols |-> 1, rows |-> 1]]
    /\ tpixels = [t \in Tiles |-> InitPixels([cols |-> 1, rows |-> 1], DefaultColor(t))]
    /\ animate = [t \in Tiles |-> TRUE]
    /\ visible = [t \in Tiles |-> TRUE]
    /\ caller = Idle
    /\ last = Result("init", FALSE, FALSE, 0)
    /\ draws = NoDraws
    /\ flushes = 0
    /\ hook_seen = [t \in Tiles |->
                       [size |-> size[t], pixels |-> tpixels[t]]]
    /\ size_sets = NoDraws
    /\ colors = <<>>
    /\ color_out = NoOutput
    /\ led_brightness = DefaultBrightness
    /\ hw_brightness = <<>>
    /\ seen = ClearPixels
    /\ cur_pass = NoPass
    /\ hw_calls = NoCalls
    /\ now = 0
    /\ next_frame_time = 0
    /\ lock_owner = [l \in Locks |-> NoOwner]
    /\ lock_depth = [l \in Locks |-> 0]
    /\ lock_prog = [p \in Procs |-> <<>>]

\* ------------------------------------------- caller thread: TileManager
\* The size setter of Tile: self._size = value; self._init_pixels().
SizeSet(tpix, t, sz) == [tpix EXCEPT ![t] = InitPixels(sz, DefaultColor(t))]

\* OnSizeSet called before the new size and buffer are in place.
OnSizeSetEarly(hs, t, sz, tpix) ==
    [hs EXCEPT ![t] = [size |-> size[t], pixels |-> tpixels[t]]]

\* The size setter's call of self.on_size_set(), once the size sz and the
\* new buffer tpix[t] are in place; the hook is given what a subclass's
\* override finds in self.size and self.pixels.
OnSizeSet(hs, t, sz, tpix) ==
    [hs EXCEPT ![t] = [size |-> sz, pixels |-> tpix[t]]]

\* RegisterTile without the compositing pass.
RegisterTileNoPass(tile, sz, root) ==
    /\ caller.pc = "idle"
    /\ size' = [size EXCEPT ![tile] = sz]
    /\ managed_tiles' = Append(managed_tiles, [root |-> root, tile_object |-> tile])
    /\ tpixels' = SizeSet(tpixels, tile, sz)
    /\ last' = Result("register_tile", TRUE, FALSE, 0)
    /\ draws' = NoDraws
    /\ flushes' = 0
    /\ hw_calls' = NoCalls
    /\ hook_seen' = OnSizeSet(hook_seen, tile, sz, SizeSet(tpixels, tile, sz))
    /\ size_sets' = [NoDraws EXCEPT ![tile] = 1]
    /\ UNCHANGED auxVars
    /\ UNCHANGED <<pixels, animation_thread, draw_fps, threads, animate, visible, caller, dataVars>>

\* register_tile(tile, size, root)
RegisterTile(tile, sz, root) ==
    /\ caller.pc = "idle"
    /\ LET size1 == [size EXCEPT ![tile] = sz]
           mt1 == Append(managed_tiles, [root |-> root, tile_object |-> tile])
           res == SetPixelsFromTiles(mt1, size1, animate, SizeSet(tpixels, tile, sz))
       IN /\ size' = size1
          /\ managed_tiles' = mt1
          /\ pixels' = res.pix
          /\ tpixels' = res.tpix
          /\ draws' = res.draws
          /\ last' = Result("register_tile", TRUE, res.err, 0)
    /\ flushes' = 0
    /\ hw_calls' = NoCalls
    /\ hook_seen' = OnSizeSet(hook_seen, tile, sz, SizeSet(tpixels, tile, sz))
    /\ size_sets' = [NoDraws EXCEPT ![tile] = 1]
    /\ UNCHANGED auxVars
    /\ UNCHANGED <<animation_thread, draw_fps, threads, animate, visible, caller, dataVars>>

\* Joined for a join() that does not wait.
JoinedAtOnce(id) == TRUE

\* threading.Thread.join(): returns once the thread is no longer alive.
Joined(id) == ~Alive(id)

\* draw_stop() up to the join: "if self._animation_thread is not None:
\* self._animation_thread.stop()"; the caller then blocks in join().
StopAndJoin(op, ret) ==
    /\ threads' = [threads EXCEPT ![animation_thread].stop_requested = TRUE]
    /\ caller' = [pc |-> "join", op |-> op, ret |-> ret]
    /\ last' = Result("join", FALSE, FALSE, 0)

\* deregister_tile(tile)
DeregisterTile(tile) ==
    /\ caller.pc = "idle"
    /\ LET r == DeregisterLoop(managed_tiles, tile, 1, 0) IN
       /\ managed_tiles' = r.mt
       /\ IF Len(r.mt) = 0 /\ animation_thread # NoThread
          THEN StopAndJoin("deregister_tile", r.removed)
          ELSE /\ last' = Result("deregister_tile", FALSE, FALSE, r.removed)
               /\ UNCHANGED <<threads, caller>>
    /\ draws' = NoDraws
    /\ flushes' = 0
    /\ hw_calls' = NoCalls
    /\ NoSizeSet
    /\ UNCHANGED auxVars
    /\ UNCHANGED <<pixels, animation_thread, draw_fps, tileVars>>

\* DrawStop forgetting the thread without waiting for it in join().
DrawStopNoJoin ==
    /\ caller.pc = "idle"
    /\ IF animation_thread # NoThread
       THEN /\ threads' = [threads EXCEPT ![animation_thread].stop_requested = TRUE]
            /\ animation_thread' = NoThread
       ELSE UNCHANGED <<threads, animation_thread>>
    /\ last' = Result("draw_stop", FALSE, FALSE, 0)
    /\ draws' = NoDraws
    /\ flushes' = 0
    /\ hw_calls' = NoCalls
    /\ NoSizeSet
    /\ UNCHANGED auxVars
    /\ UNCHANGED <<managed_tiles, pixels, draw_fps, tileVars, caller>>

\* draw_stop()
DrawStop ==
    /\ caller.pc = "idle"
    /\ IF animation_thread # NoThread
       THEN StopAndJoin("draw_stop", 0)
       ELSE /\ last' = Result("draw_stop", FALSE, FALSE, 0)
            /\ UNCHANGED <<threads, caller>>
    /\ draws' = NoDraws
    /\ flushes' = 0
    /\ hw_calls' = NoCalls
    /\ NoSizeSet
    /\ UNCHANGED auxVars
    /\ UNCHANGED <<managed_tiles, pixels, animation_thread, draw_fps, tileVars>>

\* JoinReturn without "self._animation_thread = None".
JoinReturnKeepsThread ==
    /\ caller.pc = "join"
    /\ Joined(animation_thread)
    /\ caller' = Idle
    /\ last' = Result(caller.op, FALSE, FALSE, caller.ret)
    /\ draws' = NoDraws
    /\ flushes' = 0
    /\ hw_calls' = NoCalls
    /\ NoSizeSet
    /\ UNCHANGED auxVars
    /\ UNCHANGED <<managed_tiles, pixels, animation_thread, draw_fps, threads,
                   tileVars>>

\* join() returns; draw_stop then sets self._animation_thread = None and the
\* blocked call (draw_stop or deregister_tile) returns.
JoinReturn ==
    /\ caller.pc = "join"
    /\ Joined(animation_thread)
    /\ animation_thread' = NoThread
    /\ caller' = Idle
    /\ last' = Result(caller.op, FALSE, FALSE, caller.ret)
    /\ draws' = NoDraws
    /\ flushes' = 0
    /\ hw_calls' = NoCalls
    /\ NoSizeSet
    /\ UNCHANGED auxVars
    /\ UNCHANGED <<managed_tiles, pixels, draw_fps, threads, tileVars>>

\* Thread objects that can be (re)created: not running and not referenced.
FreeIds == {id \in ThreadIds : ~Alive(id) /\ id # animation_thread}

\* DrawSync without the call of _draw_hardware_matrix().
DrawSyncNoFlush ==
    /\ caller.pc = "idle"
    /\ draw_fps = "None"
    /\ LET res == SetPixelsFromTiles(managed_tiles, size, animate, tpixels) IN
       /\ pixels' = res.pix
       /\ tpixels' = res.tpix
       /\ draws' = res.draws
       /\ flushes' = 0
       /\ hw_calls' = NoCalls
       /\ NoSizeSet
       /\ UNCHANGED auxVars
       /\ last' = Result("draw_hardware_matrix", TRUE, res.err, 0)
    /\ UNCHANGED <<managed_tiles, animation_thread, draw_fps, threads, size,
                   animate, visible, caller, dataVars>>

\* draw_hardware_matrix() without a frame rate: one pass in the caller and,
\* unless the pass raised, one _draw_hardware_matrix().
DrawSync ==
    /\ caller.pc = "idle"
    /\ draw_fps = "None"
    /\ LET res == SetPixelsFromTiles(managed_tiles, size, animate, tpixels) IN
       /\ pixels' = res.pix
       /\ tpixels' = res.tpix
       /\ draws' = res.draws
       /\ flushes' = (IF res.err THEN 0 ELSE 1)
       /\ hw_calls' = (IF res.err THEN NoCalls ELSE DrawHardwareMatrix(res.pix))
       /\ NoSizeSet
       /\ UNCHANGED auxVars
       /\ last' = Result("draw_hardware_matrix", TRUE, res.err, 0)
    /\ UNCHANGED <<managed_tiles, animation_thread, draw_fps, threads, size,
                   animate, visible, caller, dataVars>>

\* draw_hardware_matrix() with a frame rate and no thread: start one.
DrawStart ==
    /\ caller.pc = "idle"
    /\ draw_fps # "None"
    /\ animation_thread = NoThread
    /\ FreeIds # {}
    /\ LET id == CHOOSE i \in FreeIds : \A j \in FreeIds : i <= j IN
       /\ animation_thread' = id
       /\ threads' = [threads EXCEPT ![id] = [pc |-> "first_frame",
                                              stop_requested |-> FALSE]]
    /\ last' = Result("draw_hardware_matrix", FALSE, FALSE, 0)
    /\ draws' = NoDraws
    /\ flushes' = 0
    /\ hw_calls' = NoCalls
    /\ NoSizeSet
    /\ UNCHANGED auxVars
    /\ UNCHANGED <<managed_tiles, pixels, draw_fps, tileVars, caller>>

\* DrawAgain without the test "if self._animation_thread is None".
DrawAgainSpawns ==
    /\ caller.pc = "idle"
    /\ draw_fps # "None"
    /\ animation_thread # NoThread
    /\ FreeIds # {}
    /\ LET id == CHOOSE i \in FreeIds : \A j \in FreeIds : i <= j IN
       /\ animation_thread' = id
       /\ threads' = [threads EXCEPT ![id] = [pc |-> "first_frame",
                                              stop_requested |-> FALSE]]
    /\ last' = Result("draw_hardware_matrix", FALSE, FALSE, 0)
    /\ draws' = NoDraws
    /\ flushes' = 0
    /\ hw_calls' = NoCalls
    /\ NoSizeSet
    /\ UNCHANGED auxVars
    /\ UNCHANGED <<managed_tiles, pixels, draw_fps, tileVars, caller>>

\* draw_hardware_matrix() with a frame rate and a thread: nothing happens.
DrawAgain ==
    /\ caller.pc = "idle"
    /\ draw_fps # "None"
    /\ animation_thread # NoThread
    /\ last' = Result("draw_hardware_matrix", FALSE, FALSE, 0)
    /\ draws' = NoDraws
    /\ flushes' = 0
    /\ hw_calls' = NoCalls
    /\ NoSizeSet
    /\ UNCHANGED auxVars
    /\ UNCHANGED <<mgrVars, tileVars, caller>>

\* ------------------------------------------------- caller thread: Tile
\* tile.set_pixel(pos, color)
SetPixel(t, pos, color) ==
    /\ caller.pc = "idle"
    /\ tpixels' = [tpixels EXCEPT ![t] = TileSetPixel(@, pos, color)]
    /\ last' = Result("tile", FALSE, FALSE, 0)
    /\ draws' = NoDraws
    /\ flushes' = 0
    /\ hw_calls' = NoCalls
    /\ NoSizeSet
    /\ UNCHANGED auxVars
    /\ UNCHANGED <<mgrVars, size, animate, visible, caller, dataVars>>

\* tile.size = sz: the new size, the new buffer, then on_size_set()
SetSize(t, sz) ==
    /\ caller.pc = "idle"
    /\ size' = [size EXCEPT ![t] = sz]
    /\ tpixels' = SizeSet(tpixels, t, sz)
    /\ last' = Result("tile", FALSE, FALSE, 0)
    /\ draws' = NoDraws
    /\ flushes' = 0
    /\ hw_calls' = NoCalls
    /\ hook_seen' = OnSizeSet(hook_seen, t, sz, SizeSet(tpixels, t, sz))
    /\ size_sets' = [NoDraws EXCEPT ![t] = 1]
    /\ UNCHANGED auxVars
    /\ UNCHANGED <<mgrVars, animate, visible, caller, dataVars>>

\* tile.animate = val, val a boolean
SetAnimate(t, val) ==
    /\ caller.pc = "idle"
    /\ animate' = [animate EXCEPT ![t] = val]
    /\ last' = Result("tile", FALSE, FALSE, 0)
    /\ draws' = NoDraws
    /\ flushes' = 0
    /\ hw_calls' = NoCalls
    /\ NoSizeSet
    /\ UNCHANGED auxVars
    /\ UNCHANGED <<mgrVars, size, tpixels, visible, caller, dataVars>>

\* tile.visible = val, val a boolean
SetVisible(t, val) ==
    /\ caller.pc = "idle"
    /\ visible' = [visible EXCEPT ![t] = val]
    /\ last' = Result("tile", FALSE, FALSE, 0)
    /\ draws' = NoDraws
    /\ flushes' = 0
    /\ hw_calls' = NoCalls
    /\ NoSizeSet
    /\ UNCHANGED auxVars
    /\ UNCHANGED <<mgrVars, size, tpixels, animate, caller, dataVars>>

\* tile.draw() called by the caller: the base class's _init_pixels().
Draw(t) ==
    /\ caller.pc = "idle"
    /\ tpixels' = [tpixels EXCEPT ![t] = TileDraw(size, t)]
    /\ last' = Result("draw", FALSE, FALSE, 0)
    /\ draws' = [NoDraws EXCEPT ![t] = 1]
    /\ flushes' = 0
    /\ hw_calls' = NoCalls
    /\ NoSizeSet
    /\ UNCHANGED auxVars
    /\ UNCHANGED <<mgrVars, size, animate, visible, caller, dataVars>>

\* tile.default_color = color
SetDefaultColor(t, color) ==
    /\ caller.pc = "idle"
    /\ default_color' = [default_color EXCEPT ![t] = color]
    /\ last' = Result("tile", FALSE, FALSE, 0)
    /\ draws' = NoDraws
    /\ flushes' = 0
    /\ hw_calls' = NoCalls
    /\ NoSizeSet
    /\ UNCHANGED auxVars
    /\ UNCHANGED <<mgrVars, size, tpixels, animate, visible, caller, data,
                   is_accepting_data>>

\* TileDataSet storing the value whatever the flag says.
TileDataSetAlways(d, acc, t, in_data) == [d EXCEPT ![t] = in_data]

\* The data setter of Tile: "if self._is_accepting_data: self._data =
\* in_data"; the reference is stored, no copy is made.
TileDataSet(d, acc, t, in_data) ==
    IF acc[t] THEN [d EXCEPT ![t] = in_data] ELSE d

\* The data getter of Tile: return self._data.
TileData(t) == data[t]

\* tile.data = in_data
SetData(t, in_data) ==
    /\ caller.pc = "idle"
    /\ data' = TileDataSet(data, is_accepting_data, t, in_data)
    /\ last' = Result("data", FALSE, FALSE, in_data)
    /\ draws' = NoDraws
    /\ flushes' = 0
    /\ hw_calls' = NoCalls
    /\ NoSizeSet
    /\ UNCHANGED auxVars
    /\ UNCHANGED <<mgrVars, size, tpixels, animate, visible, caller,
                   is_accepting_data, default_color>>

\* "val is not True and val is not False" fails: val is one of the two
\* bool objects (1, 0 and None are not).
IsBoolean(val) == val = "True" \/ val = "False"

ToBool(val) == val = "True"

\* raise ValueError('... must be set to True or False') in the setter of
\* the property prop: nothing is assigned.
RaiseValueError(prop) ==
    /\ caller.pc = "idle"
    /\ last' = Result(prop, FALSE, TRUE, 0)
    /\ draws' = NoDraws
    /\ flushes' = 0
    /\ hw_calls' = NoCalls
    /\ NoSizeSet
    /\ UNCHANGED auxVars
    /\ UNCHANGED <<mgrVars, tileVars, caller>>

\* AssignAnimate storing the truth value of whatever it is given.
AssignAnimateUnchecked(t, val) == SetAnimate(t, ToBool(val))

\* tile.animate = val, val any Python value
AssignAnimate(t, val) ==
    IF IsBoolean(val) THEN SetAnimate(t, ToBool(val))
    ELSE RaiseValueError("animate")

\* tile.is_accepting_data = val, val a boolean
SetIsAcceptingData(t, val) ==
    /\ caller.pc = "idle"
    /\ is_accepting_data' = [is_accepting_data EXCEPT ![t] = val]
    /\ last' = Result("tile", FALSE, FALSE, 0)
    /\ draws' = NoDraws
    /\ flushes' = 0
    /\ hw_calls' = NoCalls
    /\ NoSizeSet
    /\ UNCHANGED auxVars
    /\ UNCHANGED <<mgrVars, size, tpixels, animate, visible, caller, data,
                   default_color>>

\* tile.is_accepting_data = val, val any Python value
AssignIsAcceptingData(t, val) ==
    IF IsBoolean(val) THEN SetIsAcceptingData(t, ToBool(val))
    ELSE RaiseValueError("is_accepting_data")

\* AssignVisible storing the truth value of whatever it is given.
AssignVisibleUnchecked(t, val) == SetVisible(t, ToBool(val))

\* tile.visible = val, val any Python value
AssignVisible(t, val) ==
    IF IsBoolean(val) THEN SetVisible(t, ToBool(val))
    ELSE RaiseValueError("visible")

\* ------------------------------- caller thread: send_data_to_tiles
\* "for managed_tile in self._managed_tiles: if tile_object.is_accepting_data:
\* tile_object.data = data", from record i on.
RECURSIVE SendDataFrom(_, _, _, _, _)
SendDataFrom(d, mt, acc, payload, i) ==
    IF i > Len(mt) THEN d
    ELSE SendDataFrom(IF acc[mt[i].tile_object]
                      THEN TileDataSet(d, acc, mt[i].tile_object, payload)
                      ELSE d,
                      mt, acc, payload, i + 1)

\* SendData reaching every tile, registered or not.
SendDataEveryTile(d, mt, acc, payload) ==
    [t \in Tiles |-> IF acc[t] THEN payload ELSE d[t]]

SendData(d, mt, acc, payload) == SendDataFrom(d, mt, acc, payload, 1)

\* send_data_to_tiles(payload)
SendDataToTiles(payload) ==
    /\ caller.pc = "idle"
    /\ data' = SendData(data, managed_tiles, is_accepting_data, payload)
    /\ last' = Result("send_data_to_tiles", FALSE, FALSE, payload)
    /\ draws' = NoDraws
    /\ flushes' = 0
    /\ hw_calls' = NoCalls
    /\ NoSizeSet
    /\ UNCHANGED auxVars
    /\ UNCHANGED <<mgrVars, size, tpixels, animate, visible, caller,
                   is_accepting_data, default_color>>

\* ----------------------------------------- animation thread: _animate
\* One compositing pass and, unless it raised, one _draw_hardware_matrix()
\* made by thread id, which dies if the pass raises and otherwise goes on at
\* pc next.
AnimPass(id, next) ==
    LET res == SetPixelsFromTiles(managed_tiles, size, animate, tpixels) IN
    /\ pixels' = res.pix
    /\ tpixels' = res.tpix
    /\ draws' = res.draws
    /\ flushes' = (IF res.err THEN 0 ELSE 1)
    /\ hw_calls' = (IF res.err THEN NoCalls ELSE DrawHardwareMatrix(res.pix))
    /\ NoSizeSet
    /\ UNCHANGED auxVars
    /\ threads' = [threads EXCEPT ![id].pc = IF res.err THEN "dead" ELSE next]
    /\ last' = Result("_animate", TRUE, res.err, 0)
    /\ UNCHANGED <<managed_tiles, animation_thread, draw_fps, size, animate,
                   visible, caller, dataVars>>

\* "Draw the first frame."
AnimFirstFrame(id) ==
    /\ threads[id].pc = "first_frame"
    /\ AnimPass(id, "loop")

\* A loop iteration at which the next frame is due.
AnimFrame(id) ==
    /\ threads[id].pc = "loop"
    /\ AnimPass(id, "sleep")

\* A loop iteration at which the next frame is not due yet.
AnimNotDue(id) ==
    /\ threads[id].pc = "loop"
    /\ threads' = [threads EXCEPT ![id].pc = "sleep"]
    /\ last' = Result("_animate", FALSE, FALSE, 0)
    /\ draws' = NoDraws
    /\ flushes' = 0
    /\ hw_calls' = NoCalls
    /\ NoSizeSet
    /\ UNCHANGED auxVars
    /\ UNCHANGED <<managed_tiles, pixels, animation_thread, draw_fps, tileVars,
                   caller>>

\* AnimWake going round the loop whatever the stop flag says.
AnimWakeIgnoresStop(id) ==
    /\ threads[id].pc = "sleep"
    /\ threads' = [threads EXCEPT ![id].pc = "loop"]
    /\ last' = Result("_animate", FALSE, FALSE, 0)
    /\ draws' = NoDraws
    /\ flushes' = 0
    /\ hw_calls' = NoCalls
    /\ NoSizeSet
    /\ UNCHANGED auxVars
    /\ UNCHANGED <<managed_tiles, pixels, animation_thread, draw_fps, tileVars,
                   caller>>

\* After time.sleep: "if self._animation_thread.stopped(): return".
AnimWake(id) ==
    /\ threads[id].pc = "sleep"
    /\ threads' = [threads EXCEPT ![id].pc =
                      IF threads[id].stop_requested THEN "done" ELSE "loop"]
    /\ last' = Result("_animate", FALSE, FALSE, 0)
    /\ draws' = NoDraws
    /\ flushes' = 0
    /\ hw_calls' = NoCalls
    /\ NoSizeSet
    /\ UNCHANGED auxVars
    /\ UNCHANGED <<managed_tiles, pixels, animation_thread, draw_fps, tileVars,
                   caller>>

\* ------------------------------------ _animate with its clock readings
\* Time passes.
Tick ==
    /\ now < MaxTime
    /\ now' = now + 1
    /\ last' = Result("tick", FALSE, FALSE, 0)
    /\ draws' = NoDraws
    /\ flushes' = 0
    /\ hw_calls' = NoCalls
    /\ NoSizeSet
    /\ UNCHANGED <<mgrVars, tileVars, caller, colorVars, brightVars, readVars,
                   next_frame_time, lockVars>>

\* _set_pixels_from_tiles() and _draw_hardware_matrix() by thread id, which
\* has just set next_frame_time to due.
TimedPass(id, next, due) ==
    LET res == SetPixelsFromTiles(managed_tiles, size, animate, tpixels) IN
    /\ next_frame_time' = due
    /\ pixels' = res.pix
    /\ tpixels' = res.tpix
    /\ draws' = res.draws
    /\ flushes' = (IF res.err THEN 0 ELSE 1)
    /\ hw_calls' = (IF res.err THEN NoCalls ELSE DrawHardwareMatrix(res.pix))
    /\ NoSizeSet
    /\ threads' = [threads EXCEPT ![id].pc = IF res.err THEN "dead" ELSE next]
    /\ last' = Result("_animate", TRUE, res.err, 0)
    /\ UNCHANGED <<managed_tiles, animation_thread, draw_fps, size, animate,
                   visible, caller, dataVars, colorVars, brightVars, readVars,
                   now, lockVars>>

\* "next_frame_time = current_time + frame_delay_millis" and the first
\* frame.
TimedFirstFrame(id) ==
    /\ threads[id].pc = "first_frame"
    /\ TimedPass(id, "loop", now + FrameDelay)

\* One turn of "while True" up to the sleep: "if current_time >
\* next_frame_time: next_frame_time = current_time + frame_delay_millis"
\* and a pass, or nothing.
TimedLoop(id) ==
    /\ threads[id].pc = "loop"
    /\ IF now > next_frame_time
       THEN TimedPass(id, "sleep", now + FrameDelay)
       ELSE AnimNotDue(id)

\* ------------------------- a pass of the animation thread, step by step
\* Thread id enters _set_pixels_from_tiles(): it holds the manager's lock
\* and _clear_pixels() has given the manager a new, cleared buffer.
PassBegin(id) ==
    /\ threads[id].pc \in {"first_frame", "loop"}
    /\ cur_pass = NoPass
    /\ pixels' = ClearPixels
    /\ cur_pass' = [id |-> id, i |-> 1,
                     next |-> IF threads[id].pc = "first_frame"
                              THEN "loop" ELSE "sleep"]
    /\ last' = Result("_animate", FALSE, FALSE, 0)
    /\ draws' = NoDraws
    /\ flushes' = 0
    /\ hw_calls' = NoCalls
    /\ NoSizeSet
    /\ UNCHANGED <<managed_tiles, animation_thread, draw_fps, threads,
                   tileVars, caller, colorVars, brightVars, seen, timeVars,
                   lockVars>>

\* One turn of "for managed_tile in self._managed_tiles".
PassStep(id) ==
    /\ cur_pass.id = id
    /\ cur_pass.i <= Len(managed_tiles)
    /\ LET res == CompositeTile([pix |-> pixels, tpix |-> tpixels,
                                 draws |-> NoDraws, err |-> FALSE],
                                managed_tiles[cur_pass.i], size, animate)
       IN /\ pixels' = res.pix
          /\ tpixels' = res.tpix
          /\ draws' = res.draws
          /\ threads' = [threads EXCEPT ![id].pc =
                            IF res.err THEN "dead" ELSE @]
          /\ cur_pass' = IF res.err THEN NoPass
                         ELSE [cur_pass EXCEPT !.i = @ + 1]
          /\ last' = Result("_animate", FALSE, res.err, 0)
    /\ flushes' = 0
    /\ hw_calls' = NoCalls
    /\ NoSizeSet
    /\ UNCHANGED <<managed_tiles, animation_thread, draw_fps, size, animate,
                   visible, caller, dataVars, colorVars, brightVars, seen,
                   timeVars, lockVars>>

\* The loop is over: _set_pixels_from_tiles() returns and
\* _draw_hardware_matrix() shows the buffer.
PassEnd(id) ==
    /\ cur_pass.id = id
    /\ cur_pass.i > Len(managed_tiles)
    /\ threads' = [threads EXCEPT ![id].pc = cur_pass.next]
    /\ cur_pass' = NoPass
    /\ last' = Result("_animate", TRUE, FALSE, 0)
    /\ draws' = NoDraws
    /\ flushes' = 1
    /\ hw_calls' = DrawHardwareMatrix(pixels)
    /\ NoSizeSet
    /\ UNCHANGED <<managed_tiles, pixels, animation_thread, draw_fps,
                   tileVars, caller, colorVars, brightVars, seen, timeVars,
                   lockVars>>

\* manager.pixels read by the caller: "return self._pixels", no lock taken.
ReadPixels ==
    /\ caller.pc = "idle"
    /\ seen' = pixels
    /\ last' = Result("pixels", FALSE, FALSE, 0)
    /\ draws' = NoDraws
    /\ flushes' = 0
    /\ hw_calls' = NoCalls
    /\ NoSizeSet
    /\ UNCHANGED <<mgrVars, tileVars, caller, colorVars, brightVars, cur_pass,
                   timeVars, lockVars>>

\* ------------------------------------------- PixelColor (pixelcolor.py)
\* NewPixelColor guessing "not normalized" from a component of 1 already.
NewPixelColorFromOne(id, red, green, blue, white, normalized) ==
    LET white_test == IF white = <<>> THEN 0 ELSE white[1] IN
    [id |-> id, red |-> red, green |-> green, blue |-> blue, white |-> white,
     normalized |->
         IF normalized = "None"
         THEN ~(red >= One \/ green >= One \/ blue >= One \/ white_test >= One)
         ELSE normalized = "True"]

\* PixelColor.__init__; id is the identity of the new object.
NewPixelColor(id, red, green, blue, white, normalized) ==
    LET white_test == IF white = <<>> THEN 0 ELSE white[1] IN
    [id |-> id, red |-> red, green |-> green, blue |-> blue, white |-> white,
     normalized |->
         IF normalized = "None"
         THEN ~(red > One \/ green > One \/ blue > One \/ white_test > One)
         ELSE normalized = "True"]

\* int(val) of a number that is not negative.
PyInt(val) == (val \div Denom) * Denom

\* SanitizeComponent without the upper limits.
SanitizeComponentNoCeiling(col, val) ==
    IF col.normalized
    THEN IF val < 0 THEN 0 ELSE val
    ELSE IF val < 0 THEN 0 ELSE PyInt(val)

\* PixelColor._sanitize_component
SanitizeComponent(col, val) ==
    IF col.normalized
    THEN IF val < 0 THEN 0
         ELSE IF val > One THEN One
         ELSE val
    ELSE IF val < 0 THEN 0
         ELSE IF val > ChannelMax * Denom THEN ChannelMax * Denom
         ELSE PyInt(val)

\* The red, green, blue and white properties.
Red(col) == SanitizeComponent(col, col.red)
Green(col) == SanitizeComponent(col, col.green)
Blue(col) == SanitizeComponent(col, col.blue)
White(col) ==
    IF col.white = <<>> THEN <<>> ELSE <<SanitizeComponent(col, col.white[1])>>

IsRgb(col) == White(col) = <<>>

\* PixelColor._denormalize: int(val * 255) of a normalized color's component.
Denormalize(col, val) ==
    IF col.normalized THEN PyInt(val * ChannelMax) ELSE val

\* Python integers beyond 31 bits are held as two 16-bit halves.
Half == 65536

\* x << k for an integer x below 2^16 and k <= 24.
ShiftLeft(x, k) ==
    IF k >= 16
    THEN [hi |-> x * (2 ^ (k - 16)), lo |-> 0]
    ELSE [hi |-> (x * (2 ^ k)) \div Half, lo |-> (x * (2 ^ k)) % Half]

RECURSIVE BitOr(_, _)
BitOr(a, b) ==
    IF a = 0 THEN b
    ELSE IF b = 0 THEN a
    ELSE (IF a % 2 = 1 \/ b % 2 = 1 THEN 1 ELSE 0)
         + 2 * BitOr(a \div 2, b \div 2)

\* a | b
Or(a, b) == [hi |-> BitOr(a.hi, b.hi), lo |-> BitOr(a.lo, b.lo)]

\* The integer a denormalized component is.
Channel(col, val) == Denormalize(col, val) \div Denom

\* HardwareInt shifting the white component by 16 bits only.
HardwareIntWhite16(col) ==
    IF IsRgb(col)
    THEN Or(Or(ShiftLeft(Channel(col, Red(col)), 16),
               ShiftLeft(Channel(col, Green(col)), 8)),
            ShiftLeft(Channel(col, Blue(col)), 0))
    ELSE Or(Or(Or(ShiftLeft(Channel(col, White(col)[1]), 16),
                  ShiftLeft(Channel(col, Red(col)), 16)),
               ShiftLeft(Channel(col, Green(col)), 8)),
            ShiftLeft(Channel(col, Blue(col)), 0))

\* PixelColor.hardware_int
HardwareInt(col) ==
    IF IsRgb(col)
    THEN Or(Or(ShiftLeft(Channel(col, Red(col)), 16),
               ShiftLeft(Channel(col, Green(col)), 8)),
            ShiftLeft(Channel(col, Blue(col)), 0))
    ELSE Or(Or(Or(ShiftLeft(Channel(col, White(col)[1]), 24),
                  ShiftLeft(Channel(col, Red(col)), 16)),
               ShiftLeft(Channel(col, Green(col)), 8)),
            ShiftLeft(Channel(col, Blue(col)), 0))

\* Normalize dividing as Python 2 divides integers without the
\* "from __future__ import division" of the module.
NormalizeFloorDivision(col, val) ==
    IF col.normalized THEN [num |-> val, den |-> Denom]
    ELSE [num |-> ((val \div Denom) \div ChannelMax) * Denom, den |-> Denom]

\* PixelColor._normalize: float(val / 255) of a denormalized color's
\* component, as the fraction num / den.
Normalize(col, val) ==
    IF col.normalized THEN [num |-> val, den |-> Denom]
    ELSE [num |-> val, den |-> Denom * ChannelMax]

\* int(val * 255) of the fraction val.
IntTimes255(val) == (val.num * ChannelMax) \div val.den

\* PixelColor.components
Components(col) ==
    IF IsRgb(col) THEN <<Red(col), Green(col), Blue(col)>>
    ELSE <<Red(col), Green(col), Blue(col), White(col)[1]>>

\* PixelColor.components_normalized
ComponentsNormalized(col) ==
    [k \in DOMAIN Components(col) |-> Normalize(col, Components(col)[k])]

\* PixelColor.components_denormalized
ComponentsDenormalized(col) ==
    [k \in DOMAIN Components(col) |-> Denormalize(col, Components(col)[k])]

\* a == b for two PixelColor objects: the class defines no __eq__, so
\* Python compares the objects' identities.
ColorEq(a, b) == a.id = b.id

\* Nothing of the manager or the tiles is touched by a PixelColor call.
ColorFrame ==
    /\ caller.pc = "idle"
    /\ draws' = NoDraws
    /\ flushes' = 0
    /\ hw_calls' = NoCalls
    /\ NoSizeSet
    /\ UNCHANGED <<mgrVars, tileVars, caller, brightVars, readVars, timeVars,
                   lockVars>>

\* PixelColor(red, green, blue, white, normalized)
NewColor(red, green, blue, white, normalized) ==
    /\ colors' = Append(colors, NewPixelColor(Len(colors) + 1, red, green,
                                               blue, white, normalized))
    /\ color_out' = [op |-> "new", i |-> Len(colors) + 1,
                      normalized |-> normalized]
    /\ last' = Result("PixelColor", FALSE, FALSE, 0)
    /\ ColorFrame

\* Reading red, green, blue, white and is_normalized of the i-th color.
ReadComponents(i) ==
    /\ color_out' = [op |-> "components", i |-> i,
                      red |-> Red(colors[i]), green |-> Green(colors[i]),
                      blue |-> Blue(colors[i]), white |-> White(colors[i]),
                      is_normalized |-> colors[i].normalized]
    /\ last' = Result("PixelColor", FALSE, FALSE, 0)
    /\ UNCHANGED colors
    /\ ColorFrame

\* Reading hardware_int of the i-th color.
ReadHardwareInt(i) ==
    /\ color_out' = [op |-> "hardware_int", i |-> i,
                      val |-> HardwareInt(colors[i])]
    /\ last' = Result("PixelColor", FALSE, FALSE, 0)
    /\ UNCHANGED colors
    /\ ColorFrame

\* Reading components_normalized and components_denormalized of the i-th
\* color, and int(v * 255) of every v of its components_normalized.
ReadComponentTuples(i) ==
    /\ color_out' = [op |-> "tuples", i |-> i,
                      normalized |-> ComponentsNormalized(colors[i]),
                      denormalized |-> ComponentsDenormalized(colors[i]),
                      round_trip |->
                          [k \in DOMAIN ComponentsNormalized(colors[i]) |->
                              IntTimes255(ComponentsNormalized(colors[i])[k])]]
    /\ last' = Result("PixelColor", FALSE, FALSE, 0)
    /\ UNCHANGED colors
    /\ ColorFrame

\* colors[i] == colors[j]
CompareColors(i, j) ==
    /\ color_out' = [op |-> "eq", i |-> i, j |-> j,
                      val |-> ColorEq(colors[i], colors[j])]
    /\ last' = Result("PixelColor", FALSE, FALSE, 0)
    /\ UNCHANGED colors
    /\ ColorFrame

\* ------------------------------- clear_hardware_matrix (tilemanager.py)
\* self._led_count
LedCount == MatrixCols * MatrixRows

\* ClearHardwareMatrix clearing the pixels of the first row only.
ClearHardwareMatrixFirstRow ==
    /\ caller.pc = "idle"
    /\ hw_calls' = [k \in 1..MatrixCols |-> SetPixelColor(k - 1, 0)] \o <<Show>>
    /\ last' = Result("clear_hardware_matrix", FALSE, FALSE, 0)
    /\ draws' = NoDraws
    /\ flushes' = 0
    /\ NoSizeSet
    /\ UNCHANGED auxVars
    /\ UNCHANGED <<mgrVars, tileVars, caller>>

\* manager.clear_hardware_matrix(): setPixelColor(pixel_num, 0) for every
\* pixel_num in range(self._led_count), then show(); it does not go
\* through _draw_hardware_matrix().
ClearHardwareMatrix ==
    /\ caller.pc = "idle"
    /\ hw_calls' = [k \in 1..LedCount |-> SetPixelColor(k - 1, 0)] \o <<Show>>
    /\ last' = Result("clear_hardware_matrix", FALSE, FALSE, 0)
    /\ draws' = NoDraws
    /\ flushes' = 0
    /\ NoSizeSet
    /\ UNCHANGED auxVars
    /\ UNCHANGED <<mgrVars, tileVars, caller>>

\* ------------------------------------------- brightness (tilemanager.py)
\* The then-branch of the brightness setter: store, then tell the driver.
\* hw_brightness lists the calls of hardware_matrix.setBrightness.
StoreBrightness(val) ==
    /\ caller.pc = "idle"
    /\ led_brightness' = val.n
    /\ hw_brightness' = Append(hw_brightness, val.n)
    /\ last' = Result("brightness", FALSE, FALSE, 0)
    /\ draws' = NoDraws
    /\ flushes' = 0
    /\ hw_calls' = NoCalls
    /\ NoSizeSet
    /\ UNCHANGED <<mgrVars, tileVars, caller, colorVars, readVars, timeVars,
                   lockVars>>

\* SetBrightness without the range test.
SetBrightnessUnchecked(val) ==
    IF val.kind # "num" THEN RaiseValueError("brightness")
    ELSE StoreBrightness(val)

\* manager.brightness = val. Comparing a string or a list with 0 raises
\* TypeError, which the setter turns into ValueError.
SetBrightness(val) ==
    IF val.kind # "num" THEN RaiseValueError("brightness")
    ELSE IF val.n >= 0 /\ val.n <= MaxBrightness THEN StoreBrightness(val)
    ELSE RaiseValueError("brightness")

\* ------------------------------------------------------- specifications
\* Clear filling the buffer with the default color.
ClearToDefault(t) ==
    /\ caller.pc = "idle"
    /\ tpixels' = [tpixels EXCEPT ![t] = InitPixels(size[t], DefaultColor(t))]
    /\ last' = Result("tile", FALSE, FALSE, 0)
    /\ draws' = NoDraws
    /\ flushes' = 0
    /\ hw_calls' = NoCalls
    /\ NoSizeSet
    /\ UNCHANGED auxVars
    /\ UNCHANGED <<mgrVars, size, animate, visible, caller, dataVars>>

\* tile.clear(): _init_pixels(color=PixelColor(0, 0, 0, 0))
Clear(t) ==
    /\ caller.pc = "idle"
    /\ tpixels' = [tpixels EXCEPT ![t] = InitPixels(size[t], Zero)]
    /\ last' = Result("tile", FALSE, FALSE, 0)
    /\ draws' = NoDraws
    /\ flushes' = 0
    /\ hw_calls' = NoCalls
    /\ NoSizeSet
    /\ UNCHANGED auxVars
    /\ UNCHANGED <<mgrVars, size, animate, visible, caller, dataVars>>

\* ------------------------------------------- the locks of a call
\* What a call does to the locks, as the sequence of its lock events.
Acquire(l) == [op |-> "acquire", lock |-> l]
Release(l) == [op |-> "release", lock |-> l]
Leave == [op |-> "leave", lock |-> ManagerLock]

\* @wrapt.synchronized: "with lock: return wrapped(*args, **kwargs)".
Synchronized(l, body) == <<Acquire(l)>> \o body \o <<Release(l)>>

\* The lock a synchronized property setter takes: the tile's own lock when
\* the wrapper is bound to the instance, the lock of the setter function
\* when the property calls it unbound.
SetterBindings == {"instance", "function"}
SetterContext(binding, t) == IF binding = "instance" THEN t ELSE SetterLock

\* Tile._init_pixels
InitPixelsLocks(t) == Synchronized(t, <<>>)

\* Tile.set_pixel
SetPixelLocks(t) == Synchronized(t, <<>>)

\* The size setter calling into the manager's synchronized methods while it
\* holds the tile's lock.
SizeSetterLocksManagerInside(binding, t) ==
    Synchronized(SetterContext(binding, t),
                 Synchronized(t, Synchronized(ManagerLock, <<>>)))

\* Tile.size setter: "self._size = TileSize(*value); self._init_pixels()"
SizeSetterLocks(binding, t) ==
    Synchronized(SetterContext(binding, t), InitPixelsLocks(t))

\* The setters of animate, data and is_accepting_data
FlagSetterLocks(binding, t) == Synchronized(SetterContext(binding, t), <<>>)

\* The tiles a pass or a send visits, in order.
PassOrders == UNION {[1..n -> Tiles] : n \in 0..MaxManaged}

\* "for managed_tile in self._managed_tiles: ... tile_object.draw()", the
\* default draw() calling _init_pixels.
RECURSIVE StampLocks(_, _)
StampLocks(order, i) ==
    IF i > Len(order) THEN <<>>
    ELSE InitPixelsLocks(order[i]) \o StampLocks(order, i + 1)

\* TileManager._set_pixels_from_tiles
SetPixelsFromTilesLocks(order) ==
    Synchronized(ManagerLock, StampLocks(order, 1))

\* TileManager._draw_hardware_matrix
DrawHardwareMatrixLocks == Synchronized(ManagerLock, <<>>)

\* register_tile: "tile.size = TileSize(*size)", the append, then
\* "self._set_pixels_from_tiles()".
RegisterTileLocks(binding, t, order) ==
    SizeSetterLocks(binding, t) \o SetPixelsFromTilesLocks(order)

\* send_data_to_tiles: "tile_object.data = data" for each managed tile.
RECURSIVE SendDataLocks(_, _, _)
SendDataLocks(binding, order, i) ==
    IF i > Len(order) THEN <<>>
    ELSE FlagSetterLocks(binding, order[i]) \o SendDataLocks(binding, order, i + 1)

\* One pass of _animate: "self._set_pixels_from_tiles();
\* self._draw_hardware_matrix()".
AnimateLocks(order) ==
    SetPixelsFromTilesLocks(order) \o DrawHardwareMatrixLocks \o <<Leave>>

\* The calls the caller thread makes that take locks.
CallerPrograms ==
    {SetPixelLocks(t) : t \in Tiles}
    \cup {SizeSetterLocks(b, t) : b \in SetterBindings, t \in Tiles}
    \cup {FlagSetterLocks(b, t) : b \in SetterBindings, t \in Tiles}
    \cup {RegisterTileLocks(b, t, order) :
              b \in SetterBindings, t \in Tiles, order \in PassOrders}
    \cup {SendDataLocks(b, order, 1) :
              b \in SetterBindings, order \in PassOrders \ {<<>>}}

LockQuiet ==
    /\ last' = Result("lock", FALSE, FALSE, 0)
    /\ draws' = NoDraws
    /\ flushes' = 0
    /\ hw_calls' = NoCalls
    /\ NoSizeSet
    /\ UNCHANGED <<colorVars, brightVars, readVars, timeVars>>
    /\ UNCHANGED <<managed_tiles, pixels, animation_thread, draw_fps, tileVars>>

\* The caller thread enters one of its calls.
CallerEnter(prog) ==
    /\ caller.pc = "idle"
    /\ lock_prog[Caller] = <<>>
    /\ lock_prog' = [lock_prog EXCEPT ![Caller] = prog]
    /\ LockQuiet
    /\ UNCHANGED <<threads, caller, lock_owner, lock_depth>>

\* The animation thread starts a pass (the first frame, or a frame that is
\* due) over the tiles registered at that time.
ThreadEnterPass(id, order) ==
    /\ threads[id].pc \in {"first_frame", "loop"}
    /\ lock_prog[id] = <<>>
    /\ lock_prog' = [lock_prog EXCEPT ![id] = AnimateLocks(order)]
    /\ LockQuiet
    /\ UNCHANGED <<threads, caller, lock_owner, lock_depth>>

\* threading.RLock: acquire succeeds when the lock is free or owned by the
\* acquiring thread (the depth counts the acquisitions), and blocks
\* otherwise; release frees the lock when the depth returns to zero.
LockStep(p) ==
    /\ lock_prog[p] # <<>>
    /\ LET ev == Head(lock_prog[p]) IN
       /\ CASE ev.op = "acquire" ->
                 /\ lock_owner[ev.lock] \in {NoOwner, p}
                 /\ lock_owner' = [lock_owner EXCEPT ![ev.lock] = p]
                 /\ lock_depth' = [lock_depth EXCEPT ![ev.lock] = @ + 1]
                 /\ UNCHANGED threads
            [] ev.op = "release" ->
                 /\ lock_owner' = [lock_owner EXCEPT ![ev.lock] =
                                      IF lock_depth[ev.lock] = 1
                                      THEN NoOwner ELSE p]
                 /\ lock_depth' = [lock_depth EXCEPT ![ev.lock] = @ - 1]
                 /\ UNCHANGED threads
            [] ev.op = "leave" ->
                 /\ threads' = [threads EXCEPT ![p].pc =
                                   IF threads[p].pc = "first_frame"
                                   THEN "loop" ELSE "sleep"]
                 /\ UNCHANGED <<lock_owner, lock_depth>>
    /\ lock_prog' = [lock_prog EXCEPT ![p] = Tail(lock_prog[p])]
    /\ LockQuiet
    /\ UNCHANGED caller

Register(n, tiles, sizes, roots) ==
    /\ Len(managed_tiles) < n
    /\ \E t \in tiles, sz \in sizes, root \in roots : RegisterTile(t, sz, root)

Next ==
    \/ Register(MaxManaged, Tiles, TileSizes, Roots)
    \/ \E t \in Tiles : DeregisterTile(t)
    \/ DrawSync
    \/ DrawStart
    \/ DrawAgain
    \/ DrawStop
    \/ JoinReturn
    \/ \E t \in Tiles, x \in PixelXs, y \in PixelYs :
          SetPixel(t, [x |-> x, y |-> y], Mark)
    \/ \E t \in Tiles, sz \in TileSizes : SetSize(t, sz)
    \/ \E t \in Tiles, val \in BOOLEAN : SetAnimate(t, val)
    \/ \E t \in Tiles : Clear(t)
    \/ \E id \in ThreadIds : AnimFirstFrame(id)
    \/ \E id \in ThreadIds : AnimFrame(id)
    \/ \E id \in ThreadIds : AnimNotDue(id)
    \/ \E id \in ThreadIds : AnimWake(id)

Spec == Init /\ [][Next]_vars

InitSync == Init /\ draw_fps = "None"
InitAnim == Init /\ draw_fps = "fps"

\* One registered tile at a time; the caller draws on the Painted tiles.
NextSingle ==
    \/ Register(MaxSingle, Tiles, TileSizes, Roots)
    \/ \E t \in Tiles : DeregisterTile(t)
    \/ DrawSync
    \/ \E t \in Painted, x \in PixelXs, y \in PixelYs :
          SetPixel(t, [x |-> x, y |-> y], Mark)
    \/ \E t \in Painted, sz \in TileSizes : SetSize(t, sz)
    \/ \E t \in Painted, val \in BOOLEAN : SetAnimate(t, val)

SpecSingle == InitSync /\ [][NextSingle]_vars

\* Several registered tiles of any size, composited in the caller's thread.
NextComposite ==
    \/ Register(MaxManaged, Tiles, TileSizes, Roots)
    \/ \E t \in Tiles : DeregisterTile(t)
    \/ DrawSync
    \/ \E t \in Painted, val \in BOOLEAN : SetAnimate(t, val)
    \/ \E t \in Painted : Clear(t)

SpecComposite == InitSync /\ [][NextComposite]_vars

\* The same with the visible flag in use, over roots inside the matrix.
InsideRoots == {root \in Roots : root.x >= 0 /\ root.y >= 0}

NextVisible ==
    \/ Register(MaxManaged, Tiles, TileSizes, InsideRoots)
    \/ \E t \in Tiles : DeregisterTile(t)
    \/ DrawSync
    \/ \E t \in Painted, val \in BOOLEAN : SetVisible(t, val)
    \/ \E t \in Painted, val \in BOOLEAN : SetAnimate(t, val)
    \/ \E t \in Painted : Clear(t)

SpecVisible == InitSync /\ [][NextVisible]_vars

\* Stacks of up to MaxStacked one-pixel tiles.
NextOverlap ==
    \/ Register(MaxStacked, Tiles, {UnitSize}, Roots)
    \/ \E t \in Tiles : DeregisterTile(t)
    \/ DrawSync

SpecOverlap == InitSync /\ [][NextOverlap]_vars

\* The animation thread's lifecycle, over one-pixel tiles placed inside the
\* matrix or just beyond its right edge.
SchedRoots == {[x |-> 0, y |-> 0], [x |-> MatrixCols, y |-> 0]}

NextSched ==
    \/ Register(MaxManaged, Tiles, {UnitSize}, SchedRoots)
    \/ \E t \in Tiles : DeregisterTile(t)
    \/ DrawSync
    \/ DrawStart
    \/ DrawAgain
    \/ DrawStop
    \/ JoinReturn
    \/ \E id \in ThreadIds : AnimFirstFrame(id)
    \/ \E id \in ThreadIds : AnimFrame(id)
    \/ \E id \in ThreadIds : AnimNotDue(id)
    \/ \E id \in ThreadIds : AnimWake(id)

SpecSched == Init /\ [][NextSched]_vars

\* The same under fair scheduling of the threads: a thread that can take
\* its next step takes it, and a join() that can return returns.
FairSched ==
    /\ Init
    /\ [][NextSched]_vars
    /\ WF_vars(\E id \in ThreadIds : AnimFirstFrame(id))
    /\ WF_vars(\E id \in ThreadIds : AnimFrame(id) \/ AnimNotDue(id))
    /\ WF_vars(\E id \in ThreadIds : AnimWake(id))
    /\ WF_vars(JoinReturn)

Origin == [x |-> 0, y |-> 0]

\* Drawing with and without a frame rate while the caller changes a tile's
\* default color and data between the calls.
NextDraw ==
    \/ Register(MaxSingle, Painted, {UnitSize}, SchedRoots)
    \/ \E t \in Painted : DeregisterTile(t)
    \/ DrawSync
    \/ DrawStart
    \/ DrawAgain
    \/ DrawStop
    \/ JoinReturn
    \/ \E t \in Painted, color \in Colors : SetDefaultColor(t, color)
    \/ \E t \in Painted, payload \in Payloads : SetData(t, payload)
    \/ \E id \in ThreadIds : AnimFirstFrame(id)
    \/ \E id \in ThreadIds : AnimFrame(id)
    \/ \E id \in ThreadIds : AnimNotDue(id)
    \/ \E id \in ThreadIds : AnimWake(id)

SpecDraw == Init /\ [][NextDraw]_vars

\* One tile resized, painted, cleared, drawn and registered by the caller.
NextTile ==
    \/ Register(MaxSingle, Painted, TileSizes, {Origin})
    \/ \E t \in Painted : DeregisterTile(t)
    \/ \E t \in Painted, sz \in TileSizes : SetSize(t, sz)
    \/ \E t \in Painted, x \in PixelXs, y \in PixelYs :
          SetPixel(t, [x |-> x, y |-> y], Mark)
    \/ \E t \in Painted : Clear(t)
    \/ \E t \in Painted : Draw(t)
    \/ \E t \in Painted : SetDefaultColor(t, Mark)
    \/ \E t \in Painted, payload \in Payloads : SetData(t, payload)

SpecTile == InitSync /\ [][NextTile]_vars

\* One color constructed from any input, and its accessors.
NextColor ==
    \/ /\ colors = <<>>
       /\ \E red \in RawValues, green \in RawValues, blue \in RawValues,
             white \in Whites(RawValues), normalized \in NormalizedArgs :
             NewColor(red, green, blue, white, normalized)
    \/ \E i \in 1..Len(colors) : ReadComponents(i)
    \/ \E i \in 1..Len(colors) : ReadHardwareInt(i)

SpecColor == InitSync /\ [][NextColor]_vars

\* One color of integer channels, or one of normalized channels, and its
\* component tuples.
NextTuples ==
    \/ /\ colors = <<>>
       /\ \E red \in ByteValues, green \in {0, ChannelMax * Denom},
             white \in Whites({127 * Denom}) :
             NewColor(red, green, 128 * Denom, white, "False")
    \/ /\ colors = <<>>
       /\ \E red \in UnitValues, green \in UnitValues, white \in Whites({One}) :
             NewColor(red, green, 0, white, "True")
    \/ \E i \in 1..Len(colors) : ReadComponentTuples(i)

SpecTuples == InitSync /\ [][NextTuples]_vars

\* Up to MaxColors colors constructed separately and compared.
NextColorEq ==
    \/ /\ Len(colors) < MaxColors
       /\ \E red \in EqValues, green \in {0}, blue \in {0},
             white \in Whites({0}), normalized \in NormalizedArgs :
             NewColor(red, green, blue, white, normalized)
    \/ \E i \in 1..Len(colors), j \in 1..Len(colors) : CompareColors(i, j)

SpecColorEq == InitSync /\ [][NextColorEq]_vars

\* Data sent to the tiles, one by one or through the manager.
NextData ==
    \/ Register(MaxManaged, Tiles, {UnitSize}, {Origin})
    \/ \E t \in Tiles : DeregisterTile(t)
    \/ \E payload \in Payloads : SendDataToTiles(payload)
    \/ \E t \in Tiles, payload \in Payloads : SetData(t, payload)
    \/ \E t \in Tiles, val \in BOOLEAN : SetIsAcceptingData(t, val)

SpecData == InitSync /\ [][NextData]_vars

\* Assignments of any Python value to the boolean properties of a tile.
NextFlags ==
    \/ \E t \in Tiles, val \in PyValues : AssignAnimate(t, val)
    \/ \E t \in Tiles, val \in PyValues : AssignIsAcceptingData(t, val)
    \/ \E t \in Tiles, val \in PyValues : AssignVisible(t, val)

SpecFlags == InitSync /\ [][NextFlags]_vars

\* The brightness is assigned while tiles come and go.
NextBright ==
    \/ Register(MaxSingle, Tiles, {UnitSize}, {Origin})
    \/ \E t \in Tiles : DeregisterTile(t)
    \/ /\ Len(hw_brightness) < MaxBrightnessSets
       /\ \E val \in BrightnessValues : SetBrightness(val)

SpecBright == InitSync /\ [][NextBright]_vars

\* The caller reads the frame buffer while the animation thread, started
\* over one-pixel tiles placed inside the matrix, makes its passes.
ReadRoots ==
    {root \in Roots : /\ 0 <= root.x /\ root.x < MatrixCols
                      /\ 0 <= root.y /\ root.y < MatrixRows}

NextRead ==
    \/ /\ animation_thread = NoThread
       /\ Register(MaxManaged, Tiles, {UnitSize}, ReadRoots)
    \/ DrawStart
    \/ \E id \in ThreadIds : PassBegin(id)
    \/ \E id \in ThreadIds : PassStep(id)
    \/ \E id \in ThreadIds : PassEnd(id)
    \/ \E id \in ThreadIds : cur_pass = NoPass /\ AnimNotDue(id)
    \/ \E id \in ThreadIds : AnimWake(id)
    \/ ReadPixels

SpecRead == InitAnim /\ [][NextRead]_vars

\* The hardware matrix is cleared while tiles are registered and drawn,
\* with and without an animation thread.
NextHardware ==
    \/ Register(MaxManaged, Tiles, {UnitSize}, ReadRoots)
    \/ \E t \in Tiles : DeregisterTile(t)
    \/ DrawSync
    \/ DrawStart
    \/ JoinReturn
    \/ \E id \in ThreadIds : AnimFirstFrame(id)
    \/ \E id \in ThreadIds : AnimFrame(id)
    \/ \E id \in ThreadIds : AnimNotDue(id)
    \/ \E id \in ThreadIds : AnimWake(id)
    \/ ClearHardwareMatrix

SpecHardware == Init /\ [][NextHardware]_vars

\* The animation thread and the clock.
NextClock ==
    \/ /\ animation_thread = NoThread
       /\ Register(MaxSingle, Tiles, {UnitSize}, {Origin})
    \/ DrawStart
    \/ Tick
    \/ \E id \in ThreadIds : TimedFirstFrame(id)
    \/ \E id \in ThreadIds : TimedLoop(id)
    \/ \E id \in ThreadIds : AnimWake(id)

SpecClock == InitAnim /\ [][NextClock]_vars

\* The caller deregisters tiles while the animation thread, started over
\* one-pixel tiles placed inside the matrix, is inside a pass:
\* deregister_tile takes no lock.
NextMutate ==
    \/ /\ animation_thread = NoThread
       /\ Register(MaxManaged, Tiles, {UnitSize}, ReadRoots)
    \/ \E t \in Tiles : DeregisterTile(t)
    \/ JoinReturn
    \/ DrawStart
    \/ \E id \in ThreadIds : PassBegin(id)
    \/ \E id \in ThreadIds : PassStep(id)
    \/ \E id \in ThreadIds : PassEnd(id)
    \/ \E id \in ThreadIds : cur_pass = NoPass /\ AnimNotDue(id)
    \/ \E id \in ThreadIds : AnimWake(id)

SpecMutate == InitAnim /\ [][NextMutate]_vars

\* The lock events of the caller's calls interleaved with those of the
\* animation thread's passes, and the thread's start, stop and join.
NextLocks ==
    \/ \E prog \in CallerPrograms : CallerEnter(prog)
    \/ \E p \in Procs : LockStep(p)
    \/ lock_prog[Caller] = <<>> /\ DrawStart
    \/ lock_prog[Caller] = <<>> /\ DrawStop
    \/ \E t \in Tiles : lock_prog[Caller] = <<>> /\ DeregisterTile(t)
    \/ JoinReturn
    \/ \E id \in ThreadIds, order \in PassOrders : ThreadEnterPass(id, order)
    \/ \E id \in ThreadIds : lock_prog[id] = <<>> /\ AnimNotDue(id)
    \/ \E id \in ThreadIds : AnimWake(id)

SpecLocks == InitAnim /\ [][NextLocks]_vars

\* ======================================================= claims
\* Geometry used to state the claims: the cells of the frame buffer, the
\* footprint of a registration record and the tile pixel lying over a cell.
Cells == (0..(MatrixRows - 1)) \X (0..(MatrixCols - 1))

Covers(rec, r, c) ==
    /\ rec.root.x <= c
    /\ c < rec.root.x + size[rec.tile_object].cols
    /\ rec.root.y <= r
    /\ r < rec.root.y + size[rec.tile_object].rows

TilePixelAt(rec, r, c) == tpixels[rec.tile_object][r - rec.root.y][c - rec.root.x]

Fits(rec) ==
    /\ rec.root.x >= 0
    /\ rec.root.y >= 0
    /\ rec.root.x + size[rec.tile_object].cols <= MatrixCols
    /\ rec.root.y + size[rec.tile_object].rows <= MatrixRows

Records == 1..Len(managed_tiles)

Covering(r, c) == {i \in Records : Covers(managed_tiles[i], r, c)}

Latest(S) == CHOOSE i \in S : \A j \in S : j <= i

RecordsOf(mt, t) == {i \in 1..Len(mt) : mt[i].tile_object = t}

PassDone == last.pass /\ ~last.err

\* C1: after a successful compositing pass, every frame-buffer cell that two
\* or more registered tiles cover holds the pixel of the latest-registered
\* tile covering it, for every combination of sizes and offsets.
C1_LatestTileWins ==
    PassDone =>
        \A cell \in Cells :
            LET cov == Covering(cell[1], cell[2]) IN
            Cardinality(cov) >= 2 =>
                pixels[cell[1]][cell[2]] =
                    TilePixelAt(managed_tiles[Latest(cov)], cell[1], cell[2])

\* C2: with exactly one registered tile that fits inside the matrix, a
\* compositing pass leaves the zero color outside the tile's rectangle and
\* the tile's own pixel (row - y, col - x) inside it.
C2_SingleTileFrame ==
    (PassDone /\ Len(managed_tiles) = 1 /\ Fits(managed_tiles[1])) =>
        \A cell \in Cells :
            pixels[cell[1]][cell[2]] =
                IF Covers(managed_tiles[1], cell[1], cell[2])
                THEN TilePixelAt(managed_tiles[1], cell[1], cell[2])
                ELSE Zero

\* A pass over one fitting tile that does not fill the matrix and whose
\* pixels are not all alike.
C2_Witness ==
    /\ PassDone
    /\ Len(managed_tiles) = 1
    /\ Fits(managed_tiles[1])
    /\ \E cell \in Cells : ~Covers(managed_tiles[1], cell[1], cell[2])
    /\ \E c1, c2 \in Cells :
          /\ Covers(managed_tiles[1], c1[1], c1[2])
          /\ Covers(managed_tiles[1], c2[1], c2[2])
          /\ pixels[c1[1]][c1[2]] = Mark
          /\ pixels[c2[1]][c2[2]] = DefaultColor(managed_tiles[1].tile_object)

\* C3: a compositing pass fails with a placement error whenever some
\* registered tile has a destination cell outside the frame buffer, be it
\* past the right or bottom edge or at a negative index.
C3_OutOfBoundsRaises ==
    (last.pass /\ \E i \in Records : ~Fits(managed_tiles[i])) => last.err

\* C4: a compositing pass that raises a placement error leaves the frame
\* buffer as it was before the call.
C4_FailedPassKeepsFrame ==
    [][(last'.pass /\ last'.err) => pixels' = pixels]_vars

\* The frame buffer shows, in every cell, the latest-registered visible tile
\* covering it, and the zero color where no visible tile lies.
VisibleCovering(r, c) ==
    {i \in Covering(r, c) : visible[managed_tiles[i].tile_object]}

VisibleFrame ==
    \A cell \in Cells :
        LET cov == VisibleCovering(cell[1], cell[2]) IN
        pixels[cell[1]][cell[2]] =
            IF cov = {} THEN Zero
            ELSE TilePixelAt(managed_tiles[Latest(cov)], cell[1], cell[2])

AllVisibleFit ==
    \A i \in Records :
        visible[managed_tiles[i].tile_object] => Fits(managed_tiles[i])

DrawnOncePerRecord ==
    /\ \A t \in Tiles :
          /\ (~animate[t] \/ ~visible[t]) => draws[t] = 0
          /\ (~last.err /\ animate[t] /\ visible[t]) =>
                /\ draws[t] = Cardinality(RecordsOf(managed_tiles, t))
                /\ draws[t] > 0 =>
                      tpixels[t] = InitPixels(size[t], DefaultColor(t))
    /\ (~last.err /\ Len(managed_tiles) > 0) =>
          LET rec == managed_tiles[Len(managed_tiles)] IN
          (animate[rec.tile_object] /\ visible[rec.tile_object]) =>
              \A cell \in Cells :
                  Covers(rec, cell[1], cell[2]) =>
                      pixels[cell[1]][cell[2]] = DefaultColor(rec.tile_object)

C7_RegisterAppendsAndComposites ==
    [][\A t \in Tiles, sz \in TileSizes, root \in Roots :
          RegisterTile(t, sz, root) =>
              /\ size'[t] = sz
              /\ managed_tiles' =
                    Append(managed_tiles, [root |-> root, tile_object |-> t])
              /\ last'.pass
              /\ ~last'.err =>
                    \A tr \in 0..(sz.rows - 1), tc \in 0..(sz.cols - 1) :
                        <<root.y + tr, root.x + tc>> \in Cells =>
                            pixels'[root.y + tr][root.x + tc] = tpixels'[t][tr][tc]]_vars

\* A second tile has just been registered, successfully, over a frame
\* buffer that held only the first.
C7_Witness ==
    /\ last.op = "register_tile"
    /\ PassDone
    /\ Len(managed_tiles) = 2
    /\ managed_tiles[1].tile_object # managed_tiles[2].tile_object
    /\ \E cell \in Cells :
          /\ Covers(managed_tiles[2], cell[1], cell[2])
          /\ pixels[cell[1]][cell[2]] = DefaultColor(managed_tiles[2].tile_object)

\* C8: deregister_tile(tile) removes every record of that tile, wherever
\* they are in the list, keeps the other records in order and returns the
\* number of records the tile had.
Without(mt, t) == SelectSeq(mt, LAMBDA rec : rec.tile_object # t)

C8_DeregisterRemovesAll ==
    [][\A t \in Tiles :
          DeregisterTile(t) =>
              /\ managed_tiles' = Without(managed_tiles, t)
              /\ (IF caller'.pc = "join" THEN caller'.ret ELSE last'.ret) =
                    Cardinality(RecordsOf(managed_tiles, t))]_vars

AliveThreads == {id \in ThreadIds : Alive(id)}

\* C9: when deregister_tile returns leaving the registration list empty, no
\* animation thread is alive and the manager records none.
C9_LastDeregisterStopsScheduler ==
    (last.op = "deregister_tile" /\ caller.pc = "idle" /\ managed_tiles = <<>>) =>
        (animation_thread = NoThread /\ AliveThreads = {})

\* deregister_tile has emptied the list and returned after joining a thread
\* that was asked to stop and ran to its end.
C9_Witness ==
    /\ last.op = "deregister_tile"
    /\ last.ret > 0
    /\ caller.pc = "idle"
    /\ managed_tiles = <<>>
    /\ \E id \in ThreadIds :
          threads[id].pc = "done" /\ threads[id].stop_requested

\* C10: a manager never has two animation threads alive, and
\* draw_hardware_matrix called while it holds a thread changes nothing.
C10_SingleAnimationThread ==
    [][/\ Cardinality(AliveThreads') <= 1
       /\ (last'.op = "draw_hardware_matrix" /\ animation_thread # NoThread) =>
             UNCHANGED <<mgrVars, tileVars, caller>>]_vars

\* draw_hardware_matrix has returned while the loop it started earlier is
\* asleep between frames.
C10_Witness ==
    /\ last.op = "draw_hardware_matrix"
    /\ animation_thread # NoThread
    /\ threads[animation_thread].pc = "sleep"
    /\ Len(managed_tiles) > 0

\* C11: draw_stop called while the manager holds an animation thread asks
\* the thread to stop and blocks in join(); when it returns no thread is
\* alive and none is recorded; and while the manager records no thread, no
\* step is made by an animation thread: no compositing pass and no hardware
\* draw comes from _animate.
C11_DrawStopWaitsForThread ==
    [][/\ (DrawStop /\ animation_thread # NoThread) =>
             /\ threads'[animation_thread].stop_requested
             /\ caller'.pc = "join"
       /\ (last'.op = "draw_stop" /\ caller'.pc = "idle") =>
             (animation_thread' = NoThread /\ AliveThreads' = {})
       /\ (animation_thread = NoThread /\ animation_thread' = NoThread) =>
             last'.op # "_animate"]_vars

\* draw_stop has returned after joining a thread that it asked to stop and
\* that ran to its end, with a tile still registered.
C11_Witness ==
    /\ last.op = "draw_stop"
    /\ caller.pc = "idle"
    /\ animation_thread = NoThread
    /\ Len(managed_tiles) > 0
    /\ \E id \in ThreadIds :
          threads[id].pc = "done" /\ threads[id].stop_requested

\* C12: draw_stop called while the manager records no animation thread
\* (never started, already stopped, or no frame rate) raises nothing and
\* changes nothing of the manager or the tiles; draw_stop always returns
\* with no thread recorded, so a second call in a row is such a call.
C12_DrawStopIdempotent ==
    [][/\ (DrawStop /\ animation_thread = NoThread) =>
             /\ UNCHANGED <<mgrVars, tileVars, caller>>
             /\ ~last'.err
             /\ ~last'.pass
       /\ (last'.op = "draw_stop" /\ caller'.pc = "idle") =>
             animation_thread' = NoThread]_vars

\* draw_stop has returned on a manager with a frame rate and a registered
\* tile that never started a thread.
C12_Witness ==
    /\ last.op = "draw_stop"
    /\ caller.pc = "idle"
    /\ draw_fps = "fps"
    /\ Len(managed_tiles) > 0
    /\ \A id \in ThreadIds : threads[id].pc = "new"

\* C13: a manager without a frame rate never creates an animation thread;
\* each draw_hardware_matrix makes one compositing pass in the caller's
\* thread followed, when the pass did not raise, by one hardware draw, and
\* has returned when the step is over; a change of a tile's default color or
\* data, and every other call but register_tile, leaves the frame buffer as
\* it was and draws nothing on the hardware.
C13_ManualDrawOnly ==
    [][draw_fps = "None" =>
          /\ animation_thread' = NoThread
          /\ \A id \in ThreadIds : threads'[id].pc = "new"
          /\ last'.op = "draw_hardware_matrix" =>
                /\ last'.pass
                /\ flushes' = (IF last'.err THEN 0 ELSE 1)
                /\ caller'.pc = "idle"
          /\ last'.op = "register_tile" => flushes' = 0
          /\ last'.op \notin {"draw_hardware_matrix", "register_tile"} =>
                /\ pixels' = pixels
                /\ ~last'.pass
                /\ flushes' = 0]_vars

\* Without a frame rate, a draw_hardware_matrix has composited and drawn a
\* tile in the default color the caller gave it after registering it.
C13_Witness ==
    /\ draw_fps = "None"
    /\ last.op = "draw_hardware_matrix"
    /\ PassDone
    /\ flushes = 1
    /\ \E i \in Records :
          /\ default_color[managed_tiles[i].tile_object] = Mark
          /\ pixels[managed_tiles[i].root.y][managed_tiles[i].root.x] = Mark
    /\ \E t \in Tiles : data[t] # None

\* C14: with a frame rate, draw_hardware_matrix returns with an animation
\* thread recorded by the manager and alive.
C14_DrawEnsuresRunning ==
    (last.op = "draw_hardware_matrix" /\ draw_fps = "fps") =>
        (animation_thread # NoThread /\ Alive(animation_thread))

\* C15: the manager never records, as its animation thread, a thread that
\* died of a placement error raised by its compositing pass.
C15_SchedulerErrorSurfaces ==
    animation_thread # NoThread => threads[animation_thread].pc # "dead"

\* C16: send_data_to_tiles(payload) makes payload the data of every
\* registered tile that is accepting data, leaves the data of every other
\* tile (registered and not accepting, or not registered) as it was, and
\* changes no pixel buffer, flag, size or registration record.
C16_SendDataReachesAcceptingTiles ==
    [][\A payload \in Payloads :
          SendDataToTiles(payload) =>
              /\ \A t \in Tiles :
                    TileData(t)' =
                        IF RecordsOf(managed_tiles, t) # {} /\ is_accepting_data[t]
                        THEN payload
                        ELSE TileData(t)
              /\ UNCHANGED <<mgrVars, size, tpixels, animate, visible,
                             is_accepting_data, default_color>>]_vars

\* A payload has just been sent: a registered accepting tile holds it and
\* another tile still holds the different payload it had before.
C16_Witness ==
    /\ last.op = "send_data_to_tiles"
    /\ \E t1, t2 \in Tiles :
          /\ RecordsOf(managed_tiles, t1) # {}
          /\ is_accepting_data[t1]
          /\ data[t1] = last.ret
          /\ t2 # t1
          /\ data[t2] \notin {None, last.ret}

\* C17: data is None on a new tile; an assignment to data replaces it when
\* the tile is accepting data and otherwise changes nothing and raises
\* nothing; data changes in no other way, whatever is_accepting_data is set
\* to, so reading it gives the most recently accepted value.
C17_DataGatedByAccepting ==
    /\ \A t \in Tiles : TileData(t) = None
    /\ [][/\ \A t \in Tiles, payload \in Payloads :
                SetData(t, payload) =>
                    /\ TileData(t)' = IF is_accepting_data[t] THEN payload
                                       ELSE TileData(t)
                    /\ \A u \in Tiles \ {t} : TileData(u)' = TileData(u)
                    /\ ~last'.err
          /\ \A t \in Tiles :
                TileData(t)' # TileData(t) =>
                    /\ last'.op \in {"data", "send_data_to_tiles"}
                    /\ is_accepting_data[t]
                    /\ TileData(t)' = last'.ret]_vars

\* An assignment has just been refused: no tile accepts data and no tile
\* holds the assigned value, while some tile holds an earlier one.
C17_Witness ==
    /\ last.op = "data"
    /\ \A t \in Tiles : ~is_accepting_data[t] /\ data[t] # last.ret
    /\ \E t \in Tiles : data[t] # None

\* C18: animate and is_accepting_data are True on a new tile; assigning
\* True or False stores that value; assigning anything else raises
\* ValueError and leaves the property as it was.
C18_BooleanSettersValidate ==
    /\ \A t \in Tiles : animate[t] /\ is_accepting_data[t]
    /\ [][\A t \in Tiles, val \in PyValues :
             /\ AssignAnimate(t, val) =>
                   /\ val = "True" => (animate'[t] /\ ~last'.err)
                   /\ val = "False" => (~animate'[t] /\ ~last'.err)
                   /\ val \notin {"True", "False"} =>
                         (animate' = animate /\ last'.err)
             /\ AssignIsAcceptingData(t, val) =>
                   /\ val = "True" => (is_accepting_data'[t] /\ ~last'.err)
                   /\ val = "False" => (~is_accepting_data'[t] /\ ~last'.err)
                   /\ val \notin {"True", "False"} =>
                         (is_accepting_data' = is_accepting_data /\ last'.err)]_vars

\* An assignment to animate has just raised on a tile whose animate and
\* is_accepting_data had been set to False.
C18_Witness ==
    /\ last.op = "animate"
    /\ last.err
    /\ \E t \in Tiles : ~animate[t] /\ ~is_accepting_data[t]

C20_OutOfBoundsSetPixelIgnored ==
    [][\A t \in Tiles, x \in PixelXs, y \in PixelYs :
          (/\ SetPixel(t, [x |-> x, y |-> y], Mark)
           /\ ~(0 <= x /\ x < size[t].cols /\ 0 <= y /\ y < size[t].rows)) =>
              tpixels'[t] = tpixels[t]]_vars

\* The tile's buffer has size.rows rows of size.cols cells.
BufferMatchesSize(t) ==
    /\ DOMAIN tpixels[t] = 0..(size[t].rows - 1)
    /\ \A r \in DOMAIN tpixels[t] : DOMAIN tpixels[t][r] = 0..(size[t].cols - 1)

\* C21: a new tile has size (1, 1); whatever the caller does to a tile
\* (size assignment, set_pixel, clear, draw, registration), its pixel
\* buffer has size.rows rows of size.cols cells; and right after a size
\* assignment every cell holds the tile's current default color.
C21_BufferMatchesSize ==
    /\ \A t \in Tiles : size[t] = UnitSize
    /\ [](\A t \in Tiles : BufferMatchesSize(t))
    /\ [][\A t \in Tiles, sz \in TileSizes :
             SetSize(t, sz) =>
                 \A r \in 0..(sz.rows - 1), c \in 0..(sz.cols - 1) :
                     tpixels'[t][r][c] = default_color[t]]_vars

\* A tile whose default color the caller changed has just been given a size
\* with more columns than rows.
C21_Witness ==
    /\ last.op = "tile"
    /\ \E t \in Tiles :
          /\ size_sets[t] = 1
          /\ size[t].cols > size[t].rows
          /\ default_color[t] = Mark
          /\ tpixels[t] = Matrix(size[t].cols, size[t].rows, Mark)

\* C22: clear() fills the tile's buffer, at the tile's size, with the zero
\* color whatever the default color is, and changes nothing else: not the
\* default color, the data, the flags, nor the manager's frame buffer.
C22_ClearFillsZero ==
    [][\A t \in Tiles :
          Clear(t) =>
              /\ tpixels'[t] = Matrix(size[t].cols, size[t].rows, Zero)
              /\ \A u \in Tiles \ {t} : tpixels'[u] = tpixels[u]
              /\ UNCHANGED <<mgrVars, size, animate, visible, dataVars>>]_vars

\* A registered tile of the largest size with a non-zero default color is
\* all zero while the frame buffer still shows it.
C22_Witness ==
    \E i \in Records :
        LET t == managed_tiles[i].tile_object IN
        /\ size[t] = [cols |-> MaxTileDim, rows |-> MaxTileDim]
        /\ default_color[t] = Mark
        /\ tpixels[t] = Matrix(MaxTileDim, MaxTileDim, Zero)
        /\ pixels[managed_tiles[i].root.y][managed_tiles[i].root.x] # Zero

\* C23: draw() of the base Tile fills the buffer with the default color the
\* tile has at the time of the call, whatever set_pixel or clear left in
\* it and whatever the data is, and leaves the data alone.
C23_DrawPaintsDefaultColor ==
    [][\A t \in Tiles :
          Draw(t) =>
              /\ tpixels'[t] =
                    Matrix(size[t].cols, size[t].rows, default_color[t])
              /\ UNCHANGED <<mgrVars, size, animate, visible, dataVars>>]_vars

\* draw() has just painted, on a tile holding data, a default color set
\* after construction.
C23_Witness ==
    /\ last.op = "draw"
    /\ \E t \in Tiles :
          /\ draws[t] = 1
          /\ default_color[t] = Mark
          /\ data[t] # None
          /\ size[t] # UnitSize
          /\ tpixels[t] = Matrix(size[t].cols, size[t].rows, Mark)

InUnitRange(raw, got) ==
    /\ 0 <= got /\ got <= One
    /\ raw < 0 => got = 0
    /\ raw > One => got = One
    /\ (0 <= raw /\ raw <= One) => got = raw

InByteRange(raw, got) ==
    /\ got % Denom = 0
    /\ 0 <= got /\ got <= ChannelMax * Denom
    /\ raw < 0 => got = 0
    /\ raw > ChannelMax * Denom => got = ChannelMax * Denom
    /\ (0 <= raw /\ raw <= ChannelMax * Denom) => (got <= raw /\ raw < got + Denom)

ChannelOk(col, raw, got) ==
    IF col.normalized THEN InUnitRange(raw, got) ELSE InByteRange(raw, got)

\* C25: every channel accessor of a denormalized color gives an integer in
\* [0, 255] (0 below 0, 255 above 255, fractions truncated) and of a
\* normalized color a value in [0, 1] (0 below 0, 1 above 1), whatever the
\* constructor was given; white is None exactly when it was given as None.
C25_ChannelsClamped ==
    color_out.op = "components" =>
        LET col == colors[color_out.i] IN
        /\ ChannelOk(col, col.red, color_out.red)
        /\ ChannelOk(col, col.green, color_out.green)
        /\ ChannelOk(col, col.blue, color_out.blue)
        /\ (col.white = <<>>) = (color_out.white = <<>>)
        /\ col.white # <<>> => ChannelOk(col, col.white[1], color_out.white[1])

\* The accessors of a denormalized color given a negative, a fractional
\* and an over-range component have been read.
C25_Witness ==
    /\ color_out.op = "components"
    /\ ~color_out.is_normalized
    /\ colors[color_out.i].red < 0
    /\ colors[color_out.i].green = 127 * Denom + 1
    /\ color_out.green = 127 * Denom
    /\ colors[color_out.i].white = <<ChannelMax * Denom + 1>>
    /\ color_out.white = <<ChannelMax * Denom>>

\* C26: without the normalized argument a color is denormalized exactly
\* when one of red, green, blue or a given white is greater than 1; with
\* the argument, is_normalized is the argument.
C26_NormalizedInferred ==
    color_out.op = "new" =>
        LET col == colors[color_out.i]
            given == {col.red, col.green, col.blue}
                     \cup {col.white[k] : k \in DOMAIN col.white}
        IN /\ color_out.normalized = "None" =>
                  (col.normalized = (\A v \in given : ~(v > One)))
           /\ color_out.normalized = "True" => col.normalized
           /\ color_out.normalized = "False" => ~col.normalized

\* A color given red = green = blue = white = 1 and no normalized argument
\* is normalized.
C26_Witness ==
    /\ color_out.op = "new"
    /\ color_out.normalized = "None"
    /\ colors[color_out.i].normalized
    /\ LET col == colors[color_out.i] IN
       col.red = One /\ col.green = One /\ col.blue = One /\ col.white = <<One>>

\* The clamped denormalized channel the claims speak of, as an integer.
Clamp(v, lo, hi) == IF v < lo THEN lo ELSE IF v > hi THEN hi ELSE v

Byte(col, raw) ==
    IF col.normalized THEN (Clamp(raw, 0, One) * ChannelMax) \div Denom
    ELSE Clamp(raw, 0, ChannelMax * Denom) \div Denom

\* C27: hardware_int is white<<24 | red<<16 | green<<8 | blue (RGBW) or
\* red<<16 | green<<8 | blue (RGB) of the clamped denormalized channels: it
\* is below 2^32 (2^24 for RGB) and each channel is the byte found by
\* shifting and masking with 0xFF.
C27_HardwareIntPacksChannels ==
    color_out.op = "hardware_int" =>
        LET col == colors[color_out.i]
            v == color_out.val
            w == IF col.white = <<>> THEN 0 ELSE Byte(col, col.white[1])
        IN /\ 0 <= v.lo /\ v.lo < Half
           /\ 0 <= v.hi /\ v.hi < (IF col.white = <<>> THEN 256 ELSE Half)
           /\ v.lo % 256 = Byte(col, col.blue)
           /\ (v.lo \div 256) % 256 = Byte(col, col.green)
           /\ v.hi % 256 = Byte(col, col.red)
           /\ (v.hi \div 256) % 256 = w
           /\ v.hi = w * 256 + Byte(col, col.red)
           /\ v.lo = Byte(col, col.green) * 256 + Byte(col, col.blue)

\* hardware_int of an RGBW color with white 255 and red 127 has been read.
C27_Witness ==
    /\ color_out.op = "hardware_int"
    /\ color_out.val.hi = ChannelMax * 256 + 127
    /\ color_out.val.lo > 0

\* C28: two separately constructed colors compare equal exactly when they
\* have the same normalized flag, are both RGB or both RGBW, and have the
\* same clamped channel values.
C28_StructuralEquality ==
    (color_out.op = "eq" /\ color_out.i # color_out.j) =>
        LET a == colors[color_out.i]
            b == colors[color_out.j]
        IN color_out.val =
               (/\ a.normalized = b.normalized
                /\ Red(a) = Red(b)
                /\ Green(a) = Green(b)
                /\ Blue(a) = Blue(b)
                /\ White(a) = White(b))

InBrightnessRange(val) == val.kind = "num" /\ 0 <= val.n /\ val.n <= MaxBrightness

\* C29: assigning brightness a number in [0, 255] stores it and passes it
\* to the driver's setBrightness; assigning a number outside the range, a
\* string or a list raises ValueError, keeps the stored brightness and
\* makes no driver call.
C29_BrightnessValidated ==
    [][\A val \in BrightnessValues :
          SetBrightness(val) =>
              IF InBrightnessRange(val)
              THEN /\ ~last'.err
                   /\ led_brightness' = val.n
                   /\ hw_brightness' = Append(hw_brightness, val.n)
              ELSE /\ last'.op = "brightness"
                   /\ last'.err
                   /\ led_brightness' = led_brightness
                   /\ hw_brightness' = hw_brightness]_vars

\* brightness was set to 100 and a later bad assignment has raised.
C29_Witness ==
    /\ last.op = "brightness"
    /\ last.err
    /\ led_brightness = 100
    /\ hw_brightness = <<100>>

\* The frame a finished pass over the registered tiles leaves.
CompleteFrame == SetPixelsFromTiles(managed_tiles, size, animate, tpixels).pix

\* A pass has cleared the buffer and has not stamped every tile yet.
MidPass == cur_pass # NoPass /\ cur_pass.i <= Len(managed_tiles)

\* C30: while the animation thread runs, a read of manager.pixels by the
\* caller never happens between a pass's clearing of the buffer and its
\* last stamp, and what it returns is the frame of a finished pass.
C30_ReadSeesFinishedPass ==
    (last.op = "pixels" /\ animation_thread # NoThread) =>
        /\ ~MidPass
        /\ seen = CompleteFrame

\* C35: set_pixel at a position inside the tile puts the color in that
\* cell and leaves every other cell of the tile, every other tile's buffer
\* and the manager's frame buffer as they were.
C35_SetPixelWritesOneCell ==
    [][\A t \in Tiles, x \in PixelXs, y \in PixelYs :
          (/\ SetPixel(t, [x |-> x, y |-> y], Mark)
           /\ 0 <= x /\ x < size[t].cols /\ 0 <= y /\ y < size[t].rows) =>
              /\ tpixels'[t][y][x] = Mark
              /\ \A r \in 0..(size[t].rows - 1), c \in 0..(size[t].cols - 1) :
                    <<r, c>> # <<y, x>> => tpixels'[t][r][c] = tpixels[t][r][c]
              /\ BufferMatchesSize(t)'
              /\ \A u \in Tiles \ {t} : tpixels'[u] = tpixels[u]
              /\ pixels' = pixels]_vars

\* A registered tile of more than one row and column has one marked cell
\* and no other.
C35_Witness ==
    /\ last.op = "tile"
    /\ managed_tiles # <<>>
    /\ \E t \in Tiles :
          /\ size[t].rows > 1 /\ size[t].cols > 1
          /\ tpixels[t][1][0] = Mark
          /\ \A r \in 0..(size[t].rows - 1), c \in 0..(size[t].cols - 1) :
                <<r, c>> # <<1, 0>> => tpixels[t][r][c] # Mark

\* C38: a register_tile that raises a placement error leaves the
\* registration list as it was before the call.
C38_FailedRegisterRollsBack ==
    [][\A t \in Tiles, sz \in TileSizes, root \in Roots :
          (RegisterTile(t, sz, root) /\ last'.err) =>
              managed_tiles' = managed_tiles]_vars

C33_NormalizeRoundTrip ==
    color_out.op = "tuples" =>
        LET col == colors[color_out.i]
            chan == Components(col)
        IN /\ DOMAIN color_out.round_trip = DOMAIN chan
           /\ ~col.normalized =>
                 /\ color_out.denormalized = chan
                 /\ \A k \in DOMAIN chan :
                       /\ color_out.round_trip[k] * Denom >= chan[k] - Denom
                       /\ color_out.round_trip[k] * Denom <= chan[k] + Denom
           /\ col.normalized =>
                 \A k \in DOMAIN chan :
                     /\ color_out.normalized[k].num = chan[k]
                     /\ color_out.normalized[k].den = Denom

\* The tuples of the RGBW color (200, 255, 128, 127) have been read, and
\* the round trip gave the four channels back.
C33_Witness ==
    /\ color_out.op = "tuples"
    /\ ~colors[color_out.i].normalized
    /\ color_out.denormalized = <<200 * Denom, ChannelMax * Denom, 128 * Denom, 127 * Denom>>
    /\ color_out.round_trip = <<200, ChannelMax, 128, 127>>

\* C32: clear_hardware_matrix() gives the driver the zero color for every
\* one of the MatrixCols * MatrixRows pixels, then one show(), and leaves
\* the frame buffer, the registration list, the tiles and the animation
\* thread as they were.
C32_ClearHardwareMatrixOnly ==
    [][ClearHardwareMatrix =>
          /\ Len(hw_calls') = MatrixCols * MatrixRows + 1
          /\ \A n \in 0..(MatrixCols * MatrixRows - 1) :
                hw_calls'[n + 1] = SetPixelColor(n, Zero)
          /\ hw_calls'[MatrixCols * MatrixRows + 1] = Show
          /\ UNCHANGED <<pixels, managed_tiles, animation_thread, threads,
                         draw_fps, size, tpixels, animate, visible, data,
                         is_accepting_data, default_color>>]_vars

\* The hardware matrix has been cleared while a frame buffer that is not
\* blank was on display and the animation thread was alive.
C32_Witness ==
    /\ last.op = "clear_hardware_matrix"
    /\ Len(hw_calls) = MatrixCols * MatrixRows + 1
    /\ pixels # ClearPixels
    /\ managed_tiles # <<>>
    /\ animation_thread # NoThread
    /\ Alive(animation_thread)

\* C31: a turn of the animation loop makes a pass exactly when the clock
\* has reached next_frame_time, and a pass moves next_frame_time on by one
\* frame delay from its previous value.
C31_FixedCadence ==
    [][\A id \in ThreadIds :
          TimedLoop(id) =>
              /\ last'.pass = (now >= next_frame_time)
              /\ last'.pass => next_frame_time' = next_frame_time + FrameDelay]_vars

\* C34: under fair scheduling, the animation loop that finds the stop flag
\* set at its check after the sleep ends, and a caller blocked in the
\* join() of draw_stop (called directly or by deregister_tile) eventually
\* returns.
C34_DrawStopReturns ==
    /\ [][\A id \in ThreadIds :
            (AnimWake(id) /\ threads[id].stop_requested) =>
                threads'[id].pc = "done"]_vars
    /\ (caller.pc = "join") ~> (caller.pc = "idle")

\* draw_stop has returned, with as many tiles registered as there can be,
\* after the loop it asked to stop found the flag and ended.
C34_Witness ==
    /\ last.op = "draw_stop"
    /\ caller.pc = "idle"
    /\ Len(managed_tiles) = MaxManaged
    /\ \E id \in ThreadIds :
          threads[id].pc = "done" /\ threads[id].stop_requested

\* C36: when a pass of the animation thread ends, every cell under a
\* registered visible tile holds the pixel of the latest-registered such
\* tile, whatever the caller deregistered while the pass was going on.
C36_PassStampsRemainingTiles ==
    [][\A id \in ThreadIds :
          PassEnd(id) =>
              \A cell \in Cells :
                  LET cov == VisibleCovering(cell[1], cell[2]) IN
                  cov # {} =>
                      pixels[cell[1]][cell[2]] =
                          TilePixelAt(managed_tiles[Latest(cov)], cell[1], cell[2])]_vars

NextLockEvent(p) == Head(lock_prog[p])

WaitsForLock(p, l) ==
    /\ lock_prog[p] # <<>>
    /\ NextLockEvent(p) = Acquire(l)
    /\ lock_owner[l] \notin {NoOwner, p}

\* p cannot go on before q does: p wants a lock q holds, or p is the caller
\* inside join() and q is the running animation thread.
WaitsFor(p, q) ==
    /\ p # q
    /\ \/ \E l \in Locks : WaitsForLock(p, l) /\ lock_owner[l] = q
       \/ /\ p = Caller /\ caller.pc = "join"
          /\ q = animation_thread /\ q \in ThreadIds /\ Alive(q)

\* C37: no two threads ever wait for each other; the manager lock is never
\* requested by a thread that holds a tile lock; and a thread that requests
\* a lock it already holds goes on (the locks are re-entrant), so that the
\* size setter can call _init_pixels.
C37_NoDeadlock ==
    /\ \A p \in Procs, q \in Procs : ~(WaitsFor(p, q) /\ WaitsFor(q, p))
    /\ \A p \in Procs :
          (lock_prog[p] # <<>> /\ NextLockEvent(p) = Acquire(ManagerLock)) =>
              \A t \in Tiles : lock_owner[t] # p
    /\ \A p \in Procs :
          (/\ lock_prog[p] # <<>>
           /\ NextLockEvent(p).op = "acquire"
           /\ lock_owner[NextLockEvent(p).lock] = p) => ENABLED LockStep(p)

\* The size setter holds the tile's lock twice while the animation thread,
\* inside a pass with the manager lock, waits for that tile.
C37_Witness ==
    \E t \in Tiles, id \in ThreadIds :
        /\ lock_owner[t] = Caller /\ lock_depth[t] = 2
        /\ lock_owner[ManagerLock] = id
        /\ WaitsForLock(id, t)
====
